---- MODULE Spec2Model ----
(***************************************************************************)
(* A model of agentlog: the Logger coordinator (bounded event queue,       *)
(* producers, worker pool, shutdown, callback fan-out) and the             *)
(* IncidentManager (evaluation, deduplication, severity, lifecycle).       *)
(*                                                                         *)
(* Spec        : the Logger pipeline, src/src/logger.cpp.                  *)
(* SpecIM      : the IncidentManager, src/src/incident_manager.cpp.        *)
(* SpecEval    : one evaluate_event call on a grid of inputs.              *)
(* SpecInt     : the notification of integrations by the IncidentManager.  *)
(* SpecCascade : the pipeline with the pattern, correlation and incident   *)
(*               stages on the cascading-failure stream.                   *)
(* SpecEmit    : the producer side with kept builders and sampling.        *)
(* SpecAnomaly : the anomaly stage followed by the incident stage.         *)
(* SpecHistory : a logger whose history is about to fill up.               *)
(* SpecLife    : init, shutdown and re-init around emits, with the log     *)
(*               file.                                                     *)
(* SpecCorr    : the correlation stage, src/src/correlation_engine.cpp.    *)
(* SpecDet     : training and scoring of the Z-score and moving-average    *)
(*               detectors, src/src/anomaly_detector.cpp.                  *)
(* SpecSeq     : the sequential pattern with the time limits of its steps, *)
(*               src/src/pattern_engine.cpp.                               *)
(* SpecPat     : the frequency and regex patterns and match_patterns.      *)
(* SpecClean   : the correlator's store under correlate and cleanup.       *)
(* SpecLoad    : shutdown while producers keep emitting, with fair         *)
(*               scheduling of every thread.                               *)
(* SpecRace    : the history read by the analysis stages of several        *)
(*               workers.                                                  *)
(* SpecCount   : the IncidentManager's counters over repeated resolutions. *)
(* SpecReinit  : init, shutdown and init with another configuration.       *)
(* SpecLock    : callbacks that call Logger::get_stats().                  *)
(*                                                                         *)
(* Scores are in hundredths (0.75 is 75).  The IncidentManager's time is   *)
(* an integer number of units of five minutes; event timestamps are in     *)
(* milliseconds.  A thread's short critical section is one step;           *)
(* a lock held across user callbacks is held across steps and has an       *)
(* owner.                                                                  *)
(***************************************************************************)
EXTENDS Integers, Sequences, FiniteSets, TLC

\* ------------------------------------------------------------------ bounds
MaxBurst == 2          \* emits of the first producer (the second emits one)
MaxQueue == 2          \* largest async_queue_size tried
MaxWorkers == 2        \* largest worker_threads tried
MaxCallbacks == 2      \* callbacks registered per list

Producers == {1, 2}    \* application threads calling emit
Workers == 1..MaxWorkers

\* ----------------------------------------------------- program constants
max_history_size_ == 1000
AnomalousScore == 70   \* the hard-coded 0.7 of process_event

VARIABLES
  \* Logger
  config_,             \* [async_queue_size, worker_threads]
  initialized_,
  shutdown_requested_,
  g_event_queue,       \* TRUE while the unique_ptr holds a queue
  queue_,              \* EventQueue::queue_, a sequence of events
  shutdown_,           \* EventQueue::shutdown_
  stats_,              \* Logger::Stats
  mutex_,              \* owner of Logger::mutex_ (0 = free, else a worker)
  stats_mutex_,        \* owner of Logger::stats_mutex_
  event_callbacks_,    \* number of registered event callbacks
  anomaly_callbacks_,  \* number of registered anomaly callbacks
  event_history_,      \* sequence of processed events
  next_event_id,       \* LogEvent::generate_id counter
  workload,            \* what the application will do: emits left per producer,
                       \* callbacks it registers, whether the detector flags events
  crashed,             \* std::terminate was called (uncaught exception)
  \* threads
  mpc,                 \* the lifecycle thread: init / shutdown position
  ppc, pev,            \* producer position, event being emitted
  wpc, wev, wret, wcb, \* worker position, event, loop to return to, callback index
  \* observations
  pushed,              \* ids of events push accepted
  pushedAtShutdown,    \* pushed, as it was when shutdown() took effect
  pendingAtShutdown,   \* those of them that process_event had not finished then
  popped,              \* events in the order pop handed them out
  processed,           \* ids whose process_event returned
  cbLog,               \* callback invocations [ev, list, index, outcome] in order
  events_,             \* EventCorrelator::events_: ids of the events it stored
  event_,              \* EventBuilder::event_ of the builder each producer keeps
  log_file_,           \* Logger::log_file_: [is_open, fail, path]
  files,               \* what each file holds: ids of the events written to it
  correlator_,         \* CorrelationEngine::correlator_: the EventCorrelator's members
  relationships_,      \* CausalityAnalyzer::relationships_
  lastCorr,            \* the event the correlation stage ran last and what it found
  metric_stats_,       \* ZScoreDetector::metric_stats_: metric name -> [count, mean, m2]
  metric_history_,     \* MovingAverageDetector::metric_history_: name -> [values, sum]
  lastScore,           \* the metrics ZScoreDetector::score was last called with, its result
  match_count_,        \* SequentialPattern::match_count_ of the cascading_failure pattern
  lastMatch,           \* the last call of SequentialPattern::match and what it returned
  event_times_,        \* FrequencyPattern::event_times_ of each frequency pattern
  entity_times_,       \* FrequencyPattern::entity_times_ of each frequency pattern
  lastMatches,         \* the last call of PatternEngine::match_patterns and its result
  history_ref,         \* per worker: event_history_ as it was when the worker began to read it
  components_,         \* anomaly_detector_, pattern_engine_, correlation_engine_, incident_manager_
  \* IncidentManager
  im_config_,
  incidents_,          \* incident_id -> Incident
  next_incident_id_,
  im_stats_,
  now,                 \* system_clock
  lastEval,            \* the evaluate_event call just made and what it returned
  \* IncidentManager: the notification of integrations
  integrations_,       \* number of registered integrations
  im_mutex_,           \* owner of IncidentManager::mutex_ (0 = free, 1 = the caller)
  ipc,                 \* the caller's position in evaluate_event / create_incident
  iidx,                \* index of the integration to notify next
  icur,                \* id of the incident being announced
  intLog               \* integration calls [incident, index, outcome] in order

fileVars == <<log_file_, files>>
corrVars == <<correlator_, relationships_, lastCorr>>
detVars == <<metric_stats_, metric_history_, lastScore>>
patVars == <<match_count_, lastMatch, event_times_, entity_times_, lastMatches>>
loggerVars == <<config_, initialized_, shutdown_requested_, g_event_queue, queue_,
                shutdown_, stats_, mutex_, stats_mutex_, event_callbacks_,
                anomaly_callbacks_, event_history_, next_event_id, workload,
                crashed, mpc, ppc, pev, wpc, wev, wret, wcb,
                pushed, pushedAtShutdown, pendingAtShutdown, popped, processed, cbLog,
                events_, event_, fileVars, corrVars, detVars, patVars, history_ref, components_>>
intVars == <<integrations_, im_mutex_, ipc, iidx, icur, intLog>>
imVars == <<im_config_, incidents_, next_incident_id_, im_stats_, now, lastEval, intVars>>
vars == <<loggerVars, imVars, events_, event_, fileVars, corrVars, detVars, patVars, history_ref, components_>>

\* The worker is not inside a stage that reads the history
NoRef == "none"

NoIncidentId == "nullopt"   \* std::nullopt of LogEvent::incident_id_
DefaultType == "app.event"

\* Config::log_file_path: empty, or one of two files
NoPath == ""
Paths == {"a.log", "b.log"}

\* A default-constructed std::ofstream
ClosedFile == [is_open |-> FALSE, fail |-> FALSE, path |-> NoPath]

\* enum class Severity
INFO == 2
ERROR == 4

\* A LogEvent: its id, the producer that built it, its event type, its
\* severity, its anomaly score in hundredths, its link to an incident
NoEvent == [id |-> 0, src |-> 0, type |-> DefaultType, severity |-> INFO,
            anomaly_score |-> 0, incident_id |-> NoIncidentId,
            trace_id |-> "", entities |-> {}, service_name |-> "", timestamp |-> 0]

\* ------------------------------------------------------------ EventQueue

\* EventQueue::push accepts the event unless the queue is full.
PushAcceptsMutant(q, max_size) == Len(q) <= max_size
PushAccepts(q, max_size) == ~(Len(q) >= max_size)

\* EventQueue::pop's wait predicate.
PopReady == queue_ # <<>> \/ shutdown_

\* EventQueue::pop returns false ("no more").
PopNoMoreMutant == shutdown_
PopNoMore == shutdown_ /\ queue_ = <<>>

\* ---------------------------------------------------- CorrelationEngine state

\* Keys of the correlator's indices: trace ids, entity values, service names
TraceIds == {"t1"}
EntityValues == {"u1"}
Services == {"s1"}

\* A default-constructed EventCorrelator.  events_ maps the ids stored to their
\* events; an index without a key and an index with an empty list behave alike.
EmptyCorrelator ==
  [events_ |-> <<>>,
   correlations_ |-> <<>>,
   trace_id_index_ |-> [t \in TraceIds |-> <<>>],
   entity_index_ |-> [v \in EntityValues |-> <<>>],
   service_index_ |-> [n \in Services |-> <<>>]]

\* CorrelationEngine::register_builtin_relationships; delays in milliseconds,
\* strengths in hundredths
BuiltinRelationships ==
  (<<"database.slow", "api.timeout">> :>
      [type |-> "CAUSES", strength |-> 90, typical_delay |-> 500, observed_count |-> 100])
  @@ (<<"api.timeout", "user.error">> :>
      [type |-> "CAUSES", strength |-> 80, typical_delay |-> 100, observed_count |-> 100])
  @@ (<<"circuit_breaker.open", "api.call">> :>
      [type |-> "PREVENTS", strength |-> 100, typical_delay |-> 0, observed_count |-> 100])

\* No correlation stage has run
NoCorr == [event |-> NoEvent, found |-> <<>>]

\* ---------------------------------------------------------------- doubles
\* A MetricValue is a double.  The finite ones are kept as exact fractions n/d
\* in lowest terms (d > 0); the others are the IEEE infinities and NaN.  The
\* rounding of finite results is not modelled.
Fin(n, d) == [k |-> "fin", n |-> n, d |-> d]
NaN == [k |-> "nan", n |-> 0, d |-> 1]
PosInf == [k |-> "inf", n |-> 1, d |-> 1]
NegInf == [k |-> "inf", n |-> -1, d |-> 1]

RECURSIVE GCD(_, _)
GCD(a, b) == IF b = 0 THEN a ELSE GCD(b, a % b)

Norm(n, d) ==
  LET m == IF n < 0 THEN -n ELSE n
      g == GCD(m, d)
  IN IF n < 0 THEN Fin(-(m \div g), d \div g) ELSE Fin(m \div g, d \div g)

isfinite(x) == x.k = "fin"
Sgn(x) == IF x.n > 0 THEN 1 ELSE IF x.n < 0 THEN -1 ELSE 0
DInf(sign) == IF sign = 0 THEN NaN ELSE [k |-> "inf", n |-> sign, d |-> 1]
DNeg(x) == [x EXCEPT !.n = -x.n]
DAbs(x) == [x EXCEPT !.n = IF x.n < 0 THEN -x.n ELSE x.n]

DAdd(x, y) ==
  IF x.k = "nan" \/ y.k = "nan" THEN NaN
  ELSE IF x.k = "inf" /\ y.k = "inf" THEN (IF x.n = y.n THEN x ELSE NaN)
  ELSE IF x.k = "inf" THEN x
  ELSE IF y.k = "inf" THEN y
  ELSE LET g == GCD(x.d, y.d)
       IN Norm(x.n * (y.d \div g) + y.n * (x.d \div g), (x.d \div g) * y.d)

DSub(x, y) == DAdd(x, DNeg(y))

DMul(x, y) ==
  IF x.k = "nan" \/ y.k = "nan" THEN NaN
  ELSE IF x.k = "inf" \/ y.k = "inf" THEN DInf(Sgn(x) * Sgn(y))
  ELSE Norm(x.n * y.n, x.d * y.d)

\* x / y for y not zero
DDiv(x, y) ==
  IF x.k = "nan" \/ y.k = "nan" THEN NaN
  ELSE IF x.k = "inf" THEN (IF y.k = "inf" THEN NaN ELSE DInf(Sgn(x) * Sgn(y)))
  ELSE IF y.k = "inf" THEN Fin(0, 1)
  ELSE Norm(Sgn(y) * x.n * y.d, x.d * DAbs(y).n)

\* x < y, false when either is NaN
DLess(x, y) ==
  IF x.k = "nan" \/ y.k = "nan" THEN FALSE
  ELSE IF x.k = "inf" THEN x.n < 0 /\ ~(y.k = "inf" /\ y.n < 0)
  ELSE IF y.k = "inf" THEN y.n > 0
  ELSE LET g == GCD(x.d, y.d) IN x.n * (y.d \div g) < y.n * (x.d \div g)

Epsilon == Fin(1, 1000000)

\* sqrt(x) < 1e-6 for a double x: false for NaN, for a negative x (the root is
\* NaN) and for an infinity; for a finite x >= 0 it is x < 1e-12
SqrtBelowEpsilon(x) ==
  /\ x.k = "fin"
  /\ x.n >= 0
  /\ x.n <= ((x.d - 1) \div 1000000) \div 1000000

\* ---------------------------------------------------------- anomaly detectors
MinSamples == 30
window_size_ == 100

MetricNames == {"latency"}
NoMetrics == [name \in {} |-> NaN]
DefaultZStats == [count |-> 0, mean |-> Fin(0, 1), m2 |-> Fin(0, 1)]
DefaultHistory == [values |-> <<>>, sum |-> Fin(0, 1)]

\* A score of ZScoreDetector::score: 1.0 when one is TRUE, else
\* tanh(dist / sqrt(variance) / threshold_), which is 0 for dist = 0 and grows
\* with dist / sqrt(variance)
ZeroScore == [one |-> FALSE, dist |-> Fin(0, 1), variance |-> Fin(1, 1)]
OneScore == [one |-> TRUE, dist |-> Fin(0, 1), variance |-> Fin(1, 1)]

\* dist / sqrt(variance) is NaN
ZScoreIsNaN(dist, variance) ==
  \/ dist.k = "nan"
  \/ variance.k = "nan"
  \/ variance.k = "fin" /\ variance.n < 0
  \/ dist.k = "inf" /\ variance.k = "inf"

\* a < b for two scores below 1.0 whose z-score is not NaN
ScoreLess(a, b) ==
  LET IsZero(s) == s.dist = Fin(0, 1) \/ (s.variance.k = "inf" /\ s.dist.k = "fin")
  IN IF IsZero(b) THEN FALSE
     ELSE IF IsZero(a) THEN TRUE
     ELSE DLess(DMul(DMul(a.dist, a.dist), b.variance),
                DMul(DMul(b.dist, b.dist), a.variance))
NoScore == [metrics |-> NoMetrics, score |-> ZeroScore, called |-> FALSE]

\* Stats::stddev() < 0, a comparison that tells no constant series
StddevBelowEpsilonMutant(stats) ==
  IF stats.count > 1
    THEN DLess(DDiv(stats.m2, Fin(stats.count - 1, 1)), Fin(0, 1))
  ELSE TRUE

\* Stats::stddev() < 1e-6
StddevBelowEpsilon(stats) ==
  IF stats.count > 1 THEN SqrtBelowEpsilon(DDiv(stats.m2, Fin(stats.count - 1, 1)))
  ELSE TRUE

\* One pass of the loop of ZScoreDetector::score for the metric name: the new
\* max_zscore, or OneScore where the code returns 1.0
ZScoreStep(all_stats, max_zscore, name, value) ==
  IF name \notin DOMAIN all_stats \/ all_stats[name].count < MinSamples
    THEN max_zscore
  ELSE LET stats == all_stats[name]
           dist == DAbs(DSub(value, stats.mean))
       IN IF StddevBelowEpsilon(stats)
            THEN (IF DLess(Epsilon, dist) THEN OneScore ELSE max_zscore)
          ELSE LET variance == DDiv(stats.m2, Fin(stats.count - 1, 1))
                   normalized == [one |-> FALSE, dist |-> dist, variance |-> variance]
               IN IF ~ZScoreIsNaN(dist, variance) /\ ScoreLess(max_zscore, normalized)
                    THEN normalized
                  ELSE max_zscore

RECURSIVE ZScoreLoop(_, _, _, _)
ZScoreLoop(all_stats, max_zscore, metrics, names) ==
  IF names = {} \/ max_zscore.one THEN max_zscore
  ELSE LET name == CHOOSE n \in names : TRUE
       IN ZScoreLoop(all_stats,
                     ZScoreStep(all_stats, max_zscore, name, metrics[name]),
                     metrics, names \ {name})

ZScoreDetector_score(all_stats, metrics) ==
  ZScoreLoop(all_stats, ZeroScore, metrics, DOMAIN metrics)

\* Welford's update of ZScoreDetector::train for one metric
Welford(stats, value) ==
  LET count == stats.count + 1
      delta == DSub(value, stats.mean)
      mean == DAdd(stats.mean, DDiv(delta, Fin(count, 1)))
      delta2 == DSub(value, mean)
  IN [count |-> count, mean |-> mean, m2 |-> DAdd(stats.m2, DMul(delta, delta2))]

ZScoreDetector_train(all_stats, metrics) ==
  [name \in DOMAIN all_stats \cup DOMAIN metrics |->
     IF name \in DOMAIN metrics
       THEN Welford(IF name \in DOMAIN all_stats THEN all_stats[name]
                    ELSE DefaultZStats, metrics[name])
     ELSE all_stats[name]]

\* The update of MovingAverageDetector::train for one metric
Slide(history, value) ==
  LET pushed_ == [values |-> Append(history.values, value),
                  sum |-> DAdd(history.sum, value)]
  IN IF Len(pushed_.values) > window_size_
       THEN [values |-> Tail(pushed_.values),
             sum |-> DSub(pushed_.sum, Head(pushed_.values))]
     ELSE pushed_

MovingAverageDetector_train(all_history, metrics) ==
  [name \in DOMAIN all_history \cup DOMAIN metrics |->
     IF name \in DOMAIN metrics
       THEN Slide(IF name \in DOMAIN all_history THEN all_history[name]
                  ELSE DefaultHistory, metrics[name])
     ELSE all_history[name]]

NoMatch == [called |-> FALSE, event |-> NoEvent, context |-> <<>>, score |-> 0]

\* PatternFactory::auth_failure_pattern and PatternFactory::retry_storm, the
\* windows in milliseconds
auth_failure_pattern ==
  [name |-> "auth_failure_burst", event_type |-> "auth.failed", type |-> "REPEATED",
   threshold |-> 5, window |-> 60000]
retry_storm ==
  [name |-> "retry_storm", event_type |-> "api.retry", type |-> "BURST",
   threshold |-> 10, window |-> 30000]
FrequencyPatterns == {auth_failure_pattern, retry_storm}

\* The entity values the frequency patterns meet
PatValues == {"u1", "u2"}

NoMatches == [called |-> FALSE, event |-> NoEvent, context |-> <<>>,
              scores |-> <<>>, matches |-> <<>>]

\* The patterns as PatternEngine::register_builtin_patterns constructs them
PatternInit ==
  /\ event_times_ = [f \in {q.name : q \in FrequencyPatterns} |-> <<>>]
  /\ entity_times_ = [f \in {q.name : q \in FrequencyPatterns} |->
                        [v \in PatValues |-> <<>>]]
  /\ lastMatches = NoMatches

\* The detectors as constructed
DetectorInit ==
  /\ metric_stats_ = NoMetrics
  /\ metric_history_ = NoMetrics
  /\ lastScore = NoScore

\* --------------------------------------------------------------- Logger

DefaultStats == [events_total |-> 0, events_dropped |-> 0, anomalies_detected |-> 0,
                 patterns_matched |-> 0, correlations_found |-> 0,
                 incidents_created |-> 0]

\* sampling_rate in hundredths; the defaults keep every event
Configs == [async_queue_size : 1..MaxQueue, worker_threads : 0..MaxWorkers,
            sampling_rate : {100}, sample_anomalies_always : {TRUE},
            log_file_path : {NoPath}]

\* The application around the logger.  Either two producers emit a burst and
\* register nothing, or one producer emits while callbacks are registered and the
\* detector may flag events as anomalous.  In both the pattern, correlation and
\* incident stages are switched off (patterns), and events have the default type.
Workloads ==
  { [emits |-> <<MaxBurst, 1>>, callbacks |-> 0, anomalies |-> FALSE,
     patterns |-> FALSE, types |-> <<>>,
     builder |-> FALSE, severities |-> <<>>, scores |-> <<>>,
     inits |-> 0, shutdowns |-> 0, reinits |-> 0],
    [emits |-> <<2, 0>>, callbacks |-> MaxCallbacks, anomalies |-> TRUE,
     patterns |-> FALSE, types |-> <<>>,
     builder |-> FALSE, severities |-> <<>>, scores |-> <<>>,
     inits |-> 0, shutdowns |-> 0, reinits |-> 0] }

QuietWorkload == [emits |-> <<0, 0>>, callbacks |-> 0, anomalies |-> FALSE,
                  patterns |-> FALSE, types |-> <<>>,
     builder |-> FALSE, severities |-> <<>>, scores |-> <<>>,
     inits |-> 0, shutdowns |-> 0, reinits |-> 0]

\* The analysis components Logger::init constructs, named by the Config flag
\* that enables each: anomaly_detector_, pattern_engine_, correlation_engine_,
\* incident_manager_
ComponentFlags == {"enable_anomaly_detection", "enable_pattern_matching",
                   "enable_correlation", "enable_auto_incidents"}

\* A flag of the Config; one the application did not set has its default
Flag(cfg, k) ==
  IF k \in DOMAIN cfg THEN cfg[k] ELSE k # "enable_auto_incidents"

\* A component is a pointer that is null or not (present) and, for what the
\* component has accumulated, the ids of the events it has processed (seen)
NoComponent == [present |-> FALSE, seen |-> {}]
FreshComponent == [present |-> TRUE, seen |-> {}]
NoComponents == [k \in ComponentFlags |-> NoComponent]

\* if (config.enable_...) component_ = make_shared<...>() of Logger::init: an
\* enabled component is constructed anew, the pointer of a disabled one is left
\* as it is
ConstructComponents(cfg, comps) ==
  [k \in ComponentFlags |-> IF Flag(cfg, k) THEN FreshComponent ELSE comps[k]]

LoggerInitWith(wl) ==
  /\ workload = wl
  /\ config_ = [async_queue_size |-> 1, worker_threads |-> 0,
                sampling_rate |-> 100, sample_anomalies_always |-> TRUE,
                log_file_path |-> NoPath]
  /\ initialized_ = FALSE
  /\ shutdown_requested_ = FALSE
  /\ g_event_queue = FALSE
  /\ queue_ = <<>>
  /\ shutdown_ = FALSE
  /\ stats_ = DefaultStats
  /\ mutex_ = 0
  /\ stats_mutex_ = 0
  /\ event_callbacks_ = 0
  /\ anomaly_callbacks_ = 0
  /\ event_history_ = <<>>
  /\ next_event_id = 1
  /\ crashed = FALSE
  /\ mpc = "new"
  /\ ppc = [p \in Producers |-> "idle"]
  /\ pev = [p \in Producers |-> NoEvent]
  /\ wpc = [w \in Workers |-> "none"]
  /\ wev = [w \in Workers |-> NoEvent]
  /\ wret = [w \in Workers |-> "none"]
  /\ wcb = [w \in Workers |-> 0]
  /\ pushed = {}
  /\ pushedAtShutdown = {}
  /\ pendingAtShutdown = {}
  /\ popped = <<>>
  /\ processed = {}
  /\ events_ = {}
  /\ event_ = [p \in Producers |-> NoEvent]
  /\ log_file_ = ClosedFile
  /\ files = [f \in Paths |-> <<>>]
  /\ correlator_ = EmptyCorrelator
  /\ relationships_ = BuiltinRelationships
  /\ lastCorr = NoCorr
  /\ DetectorInit
  /\ match_count_ = 0
  /\ lastMatch = NoMatch
  /\ PatternInit
  /\ history_ref = [w \in Workers |-> NoRef]
  /\ components_ = NoComponents
  /\ cbLog = <<>>

LoggerInit == \E wl \in Workloads : LoggerInitWith(wl)


\* log_file_.open(path, out | app): a closed stream opens the file and clears
\* its state; a stream that is already open keeps its file and sets failbit.
\* (The file system is taken to let the files be opened.)
OpenLogFile(path) ==
  IF log_file_.is_open THEN [log_file_ EXCEPT !.fail = TRUE]
  ELSE [is_open |-> TRUE, fail |-> FALSE, path |-> path]

\* The body of Logger::init past the initialized_ test: store the configuration,
\* open the log file if one is configured, construct the queue, start the workers.
InitEffects(cfg) ==
  /\ mutex_ = 0
  /\ ~initialized_
  /\ config_' = cfg
  /\ log_file_' = IF cfg.log_file_path # NoPath THEN OpenLogFile(cfg.log_file_path)
                                                ELSE log_file_
  /\ g_event_queue' = TRUE
  /\ queue_' = <<>>
  /\ shutdown_' = FALSE
  /\ shutdown_requested_' = FALSE
  /\ wpc' = [w \in Workers |-> IF w <= cfg.worker_threads THEN "loop" ELSE "none"]
  /\ initialized_' = TRUE
  /\ components_' = ConstructComponents(cfg, components_)
  /\ mpc' = "running"
  /\ UNCHANGED <<stats_, mutex_, stats_mutex_, event_callbacks_, anomaly_callbacks_,
                 event_history_, next_event_id, crashed, ppc, pev, wev, wret, wcb,
                 pushed, pushedAtShutdown, pendingAtShutdown, popped, processed, cbLog,
                 imVars, events_, event_, files, corrVars, detVars, patVars, history_ref>>

\* Logger::init (first call)
Init_(cfg) ==
  /\ mpc = "new" /\ ~crashed
  /\ InitEffects(cfg)
  /\ UNCHANGED workload

\* Logger::init after shutdown() has returned
ReInit(cfg) ==
  /\ mpc = "down" /\ ~crashed
  /\ workload.reinits > 0
  /\ workload' = [workload EXCEPT !.reinits = @ - 1]
  /\ InitEffects(cfg)

InitAgainMutant(cfg) ==
  /\ mpc = "running" /\ ~crashed
  /\ mutex_ = 0
  /\ workload.inits > 0
  /\ workload' = [workload EXCEPT !.inits = @ - 1]
  /\ config_' = cfg
  /\ UNCHANGED <<initialized_, shutdown_requested_, g_event_queue, queue_,
                 shutdown_, stats_, mutex_, stats_mutex_, event_callbacks_,
                 anomaly_callbacks_, event_history_, next_event_id, crashed, mpc, ppc, pev,
                 wpc, wev, wret, wcb, pushed, pushedAtShutdown, pendingAtShutdown, popped,
                 processed, cbLog, imVars, events_, event_, fileVars, corrVars, detVars, patVars, history_ref, components_>>

\* Logger::init while initialized: "Already initialized" on stderr, return
InitAgain(cfg) ==
  /\ mpc = "running" /\ ~crashed
  /\ mutex_ = 0
  /\ initialized_
  /\ workload.inits > 0
  /\ workload' = [workload EXCEPT !.inits = @ - 1]
  /\ UNCHANGED <<config_, initialized_, shutdown_requested_, g_event_queue, queue_,
                 shutdown_, stats_, mutex_, stats_mutex_, event_callbacks_,
                 anomaly_callbacks_, event_history_, next_event_id, crashed, mpc, ppc, pev,
                 wpc, wev, wret, wcb, pushed, pushedAtShutdown, pendingAtShutdown, popped,
                 processed, cbLog, imVars, events_, event_, fileVars, corrVars, detVars, patVars, history_ref, components_>>

\* Logger::on_event
on_event ==
  /\ mpc = "new" /\ ~crashed
  /\ mutex_ = 0
  /\ event_callbacks_ < workload.callbacks
  /\ event_callbacks_' = event_callbacks_ + 1
  /\ UNCHANGED <<config_, initialized_, shutdown_requested_, g_event_queue, queue_,
                 shutdown_, stats_, mutex_, stats_mutex_, anomaly_callbacks_,
                 event_history_, next_event_id, workload, crashed, mpc, ppc, pev, wpc, wev,
                 wret, wcb, pushed, pushedAtShutdown, pendingAtShutdown, popped, processed, cbLog, imVars, events_, event_, fileVars, corrVars, detVars, patVars, history_ref, components_>>

\* Logger::on_anomaly
on_anomaly ==
  /\ mpc = "new" /\ ~crashed
  /\ mutex_ = 0
  /\ anomaly_callbacks_ < workload.callbacks
  /\ anomaly_callbacks_' = anomaly_callbacks_ + 1
  /\ UNCHANGED <<config_, initialized_, shutdown_requested_, g_event_queue, queue_,
                 shutdown_, stats_, mutex_, stats_mutex_, event_callbacks_,
                 event_history_, next_event_id, workload, crashed, mpc, ppc, pev, wpc, wev,
                 wret, wcb, pushed, pushedAtShutdown, pendingAtShutdown, popped, processed, cbLog, imVars, events_, event_, fileVars, corrVars, detVars, patVars, history_ref, components_>>

\* ---- Logger::emit, one producer thread

\* The type, severity and anomaly score the application gives to the event it
\* builds k-th
TypeOf(k) == IF k \in DOMAIN workload.types THEN workload.types[k] ELSE DefaultType
SeverityOf(k) == IF k \in DOMAIN workload.severities THEN workload.severities[k] ELSE INFO
ScoreOf(k) == IF k \in DOMAIN workload.scores THEN workload.scores[k] ELSE 0

\* LogEvent::is_anomalous with its default threshold
is_anomalous(event) == event.anomaly_score >= AnomalousScore

\* Values of dis(gen), the uniform draw from [0, 1) in hundredths
Draws == {0, 50, 99}

\* Logger::should_sample
should_sampleMutant(cfg, event, draw) ==
  IF cfg.sample_anomalies_always /\ is_anomalous(event)
    THEN TRUE
  ELSE IF cfg.sampling_rate >= 100 THEN TRUE
  ELSE draw < cfg.sampling_rate
should_sample(cfg, event, draw) ==
  IF cfg.sample_anomalies_always /\ (is_anomalous(event) \/ event.severity >= ERROR)
    THEN TRUE
  ELSE IF cfg.sampling_rate >= 100 THEN TRUE
  ELSE draw < cfg.sampling_rate

EmitEnterMutant(p, event) ==
  \E draw \in Draws :
    IF should_sample(config_, event, draw)
      THEN /\ pev' = [pev EXCEPT ![p] = event]
           /\ ppc' = [ppc EXCEPT ![p] = "stats"]
      ELSE UNCHANGED <<ppc, pev>>

\* Entry of Logger::emit(event): initialized_ is read without a lock, then
\* should_sample decides whether the call goes on to the counters and the queue.
EmitEnter(p, event) ==
  IF ~initialized_
    THEN UNCHANGED <<ppc, pev>>                 \* stderr fallback
    ELSE \E draw \in Draws :
           IF should_sample(config_, event, draw)
             THEN /\ pev' = [pev EXCEPT ![p] = event]
                  /\ ppc' = [ppc EXCEPT ![p] = "stats"]
             ELSE UNCHANGED <<ppc, pev>>        \* discarded by sampling

\* The application constructs an event (generate_id) and emits it.  A builder it
\* keeps in a variable still holds the event after emit() returned; a temporary
\* builder is destroyed with the statement.
EmitBegin(p) ==
  /\ ppc[p] = "idle" /\ ~crashed
  /\ workload.emits[p] > 0
  /\ workload' = [workload EXCEPT !.emits[p] = @ - 1]
  /\ next_event_id' = next_event_id + 1
  /\ LET event == [id |-> next_event_id, src |-> p, type |-> TypeOf(next_event_id),
                   severity |-> SeverityOf(next_event_id),
                   anomaly_score |-> ScoreOf(next_event_id),
                   incident_id |-> NoIncidentId,
                   trace_id |-> "", entities |-> {}, service_name |-> "",
                   timestamp |-> 0]
     IN /\ event_' = [event_ EXCEPT ![p] = IF workload.builder THEN event ELSE NoEvent]
        /\ EmitEnter(p, event)
  /\ UNCHANGED <<config_, initialized_, shutdown_requested_, g_event_queue, queue_,
                 shutdown_, stats_, mutex_, stats_mutex_, event_callbacks_,
                 anomaly_callbacks_, event_history_, crashed, mpc, wpc, wev, wret, wcb,
                 pushed, pushedAtShutdown, pendingAtShutdown, popped, processed, cbLog, imVars, events_, fileVars, corrVars, detVars, patVars, history_ref, components_>>

\* EventBuilder::emit called again on a builder the application kept:
\* Logger::instance().emit(event_) with the event the builder still holds
EmitAgain(p) ==
  /\ ppc[p] = "idle" /\ ~crashed
  /\ event_[p] # NoEvent
  /\ EmitEnter(p, event_[p])
  /\ event_' = [event_ EXCEPT ![p] = NoEvent]     \* the builder goes out of scope
  /\ UNCHANGED <<config_, initialized_, shutdown_requested_, g_event_queue, queue_,
                 shutdown_, stats_, mutex_, stats_mutex_, event_callbacks_,
                 anomaly_callbacks_, event_history_, next_event_id, workload, crashed, mpc,
                 wpc, wev, wret, wcb, pushed, pushedAtShutdown, pendingAtShutdown, popped,
                 processed, cbLog, imVars, events_, fileVars, corrVars, detVars, patVars, history_ref, components_>>

\* stats_.events_total++ under stats_mutex_
EmitStats(p) ==
  /\ ppc[p] = "stats" /\ ~crashed
  /\ stats_mutex_ = 0
  /\ stats_' = [stats_ EXCEPT !.events_total = @ + 1]
  /\ ppc' = [ppc EXCEPT ![p] = "push"]
  /\ UNCHANGED <<config_, initialized_, shutdown_requested_, g_event_queue, queue_,
                 shutdown_, mutex_, stats_mutex_, event_callbacks_,
                 anomaly_callbacks_, event_history_, next_event_id, workload, crashed, mpc, pev,
                 wpc, wev, wret, wcb, pushed, pushedAtShutdown, pendingAtShutdown, popped, processed,
                 cbLog, imVars, events_, event_, fileVars, corrVars, detVars, patVars, history_ref, components_>>

\* g_event_queue && !g_event_queue->push(event)
EmitPush(p) ==
  /\ ppc[p] = "push" /\ ~crashed
  /\ IF ~g_event_queue
       THEN /\ ppc' = [ppc EXCEPT ![p] = "idle"]
            /\ pev' = [pev EXCEPT ![p] = NoEvent]
            /\ UNCHANGED <<queue_, pushed>>
       ELSE IF PushAccepts(queue_, config_.async_queue_size)
         THEN /\ queue_' = Append(queue_, pev[p])
              /\ pushed' = pushed \cup {pev[p].id}
              /\ ppc' = [ppc EXCEPT ![p] = "idle"]
              /\ pev' = [pev EXCEPT ![p] = NoEvent]
         ELSE /\ ppc' = [ppc EXCEPT ![p] = "drop"]
              /\ UNCHANGED <<queue_, pushed, pev>>
  /\ UNCHANGED <<config_, initialized_, shutdown_requested_, g_event_queue,
                 shutdown_, stats_, mutex_, stats_mutex_, event_callbacks_,
                 anomaly_callbacks_, event_history_, next_event_id, workload, crashed, mpc,
                 wpc, wev, wret, wcb, pushedAtShutdown, pendingAtShutdown, popped, processed,
                 cbLog, imVars, events_, event_, fileVars, corrVars, detVars, patVars, history_ref, components_>>

\* Queue full: stats_.events_dropped++ under stats_mutex_
EmitDrop(p) ==
  /\ ppc[p] = "drop" /\ ~crashed
  /\ stats_mutex_ = 0
  /\ stats_' = [stats_ EXCEPT !.events_dropped = @ + 1]
  /\ ppc' = [ppc EXCEPT ![p] = "idle"]
  /\ pev' = [pev EXCEPT ![p] = NoEvent]
  /\ UNCHANGED <<config_, initialized_, shutdown_requested_, g_event_queue, queue_,
                 shutdown_, mutex_, stats_mutex_, event_callbacks_,
                 anomaly_callbacks_, event_history_, next_event_id, workload, crashed, mpc,
                 wpc, wev, wret, wcb, pushed, pushedAtShutdown, pendingAtShutdown, popped, processed,
                 cbLog, imVars, events_, event_, fileVars, corrVars, detVars, patVars, history_ref, components_>>


\* ---- Logger::async_worker, one worker thread

\* Where process_event goes after its anomaly stage: to the pattern,
\* correlation and incident stages when they are configured, else to the history
AfterAnomalyStage == IF workload.patterns THEN "analyze" ELSE "history"

\* Scores the detector may return for an event with metrics, in hundredths
DetectorScores == {AnomalousScore - 1, AnomalousScore}

\* if (score >= 0.7) of the anomaly stage
ScoreTriggersMutant(score) == score > AnomalousScore
ScoreTriggers(score) == score >= AnomalousScore

\* while (!shutdown_requested_)  ...  then the drain loop
WorkerLoop(w) ==
  /\ wpc[w] = "loop" /\ ~crashed
  /\ wpc' = [wpc EXCEPT ![w] = IF shutdown_requested_ THEN "drain" ELSE "pop"]
  /\ UNCHANGED <<config_, initialized_, shutdown_requested_, g_event_queue, queue_,
                 shutdown_, stats_, mutex_, stats_mutex_, event_callbacks_,
                 anomaly_callbacks_, event_history_, next_event_id, workload, crashed, mpc,
                 ppc, pev, wev, wret, wcb, pushed, pushedAtShutdown, pendingAtShutdown, popped,
                 processed, cbLog, imVars, events_, event_, fileVars, corrVars, detVars, patVars, history_ref, components_>>

\* g_event_queue->pop(event): blocks until an event or shutdown.  From the main
\* loop a false return goes back to the loop test, from the drain loop it ends
\* the thread.  A popped event enters process_event, whose anomaly stage scores
\* and trains (under the detector's own mutex); the score the detector returns
\* is an input here.
WorkerPop(w) ==
  /\ wpc[w] \in {"pop", "drain"} /\ ~crashed
  /\ PopReady
  /\ IF PopNoMore
       THEN /\ wpc' = [wpc EXCEPT ![w] = IF wpc[w] = "pop" THEN "loop" ELSE "exit"]
            /\ UNCHANGED <<queue_, wev, wret, popped>>
       ELSE IF queue_ # <<>>
         THEN /\ queue_' = Tail(queue_)
              /\ popped' = Append(popped, Head(queue_))
              /\ wret' = [wret EXCEPT ![w] = IF wpc[w] = "pop" THEN "loop" ELSE "drain"]
              /\ IF workload.anomalies
                   THEN \E score \in DetectorScores :
                          /\ wev' = [wev EXCEPT ![w] =
                                       [Head(queue_) EXCEPT !.anomaly_score = score]]
                          /\ wpc' = [wpc EXCEPT ![w] =
                                       IF ScoreTriggers(score) THEN "lock_stats"
                                                               ELSE AfterAnomalyStage]
                   ELSE /\ wev' = [wev EXCEPT ![w] = Head(queue_)]
                        /\ wpc' = [wpc EXCEPT ![w] = AfterAnomalyStage]
         ELSE /\ wpc' = [wpc EXCEPT ![w] = IF wpc[w] = "pop" THEN "loop" ELSE "exit"]
              /\ UNCHANGED <<queue_, wev, wret, popped>>
  /\ UNCHANGED <<config_, initialized_, shutdown_requested_, g_event_queue,
                 shutdown_, stats_, mutex_, stats_mutex_, event_callbacks_,
                 anomaly_callbacks_, event_history_, next_event_id, workload, crashed, mpc,
                 ppc, pev, wcb, pushed, pushedAtShutdown, pendingAtShutdown, processed, cbLog, imVars, events_, event_, fileVars, corrVars, detVars, patVars, history_ref, components_>>

\* ---- Logger::process_event, run by the worker that popped the event

\* lock_guard lock(stats_mutex_); stats_.anomalies_detected++  (the guard lives to
\* the end of the if block, across the callbacks)
ProcLockStats(w) ==
  /\ wpc[w] = "lock_stats" /\ ~crashed
  /\ stats_mutex_ = 0
  /\ stats_mutex_' = w
  /\ stats_' = [stats_ EXCEPT !.anomalies_detected = @ + 1]
  /\ wpc' = [wpc EXCEPT ![w] = "lock_cb"]
  /\ UNCHANGED <<config_, initialized_, shutdown_requested_, g_event_queue, queue_,
                 shutdown_, mutex_, event_callbacks_,
                 anomaly_callbacks_, event_history_, next_event_id, workload, crashed, mpc,
                 ppc, pev, wev, wret, wcb, pushed, pushedAtShutdown, pendingAtShutdown, popped,
                 processed, cbLog, imVars, events_, event_, fileVars, corrVars, detVars, patVars, history_ref, components_>>

\* lock_guard cb_lock(mutex_); the loop over anomaly_callbacks_ begins: the
\* worker enters the first callback, or leaves the block when there is none.
ProcLockCb(w) ==
  /\ wpc[w] = "lock_cb" /\ ~crashed
  /\ mutex_ = 0
  /\ IF anomaly_callbacks_ = 0
       THEN /\ stats_mutex_' = 0
            /\ wpc' = [wpc EXCEPT ![w] = AfterAnomalyStage]
            /\ UNCHANGED <<mutex_, wcb>>
       ELSE /\ mutex_' = w
            /\ wcb' = [wcb EXCEPT ![w] = 1]
            /\ wpc' = [wpc EXCEPT ![w] = "anomaly_cb"]
            /\ UNCHANGED stats_mutex_
  /\ UNCHANGED <<config_, initialized_, shutdown_requested_, g_event_queue, queue_,
                 shutdown_, stats_, event_callbacks_,
                 anomaly_callbacks_, event_history_, next_event_id, workload, crashed, mpc,
                 ppc, pev, wev, wret, pushed, pushedAtShutdown, pendingAtShutdown, popped,
                 processed, cbLog, imVars, events_, event_, fileVars, corrVars, detVars, patVars, history_ref, components_>>

\* The worker is inside anomaly callback wcb[w], holding stats_mutex_ and mutex_.
\* The callback returns, and the loop enters the next one or ends and both guards
\* are released; or it throws: nothing catches, the exception unwinds out of
\* process_event and async_worker, and the thread function ends in std::terminate.
ProcAnomalyCb(w) ==
  /\ wpc[w] = "anomaly_cb" /\ ~crashed
  /\ \E outcome \in {"returns", "throws"} :
       /\ cbLog' = Append(cbLog, [ev |-> wev[w], list |-> "anomaly", index |-> wcb[w],
                                 outcome |-> outcome])
       /\ IF outcome = "throws"
            THEN /\ mutex_' = 0
                 /\ stats_mutex_' = 0
                 /\ wpc' = [wpc EXCEPT ![w] = "dead"]
                 /\ crashed' = TRUE
                 /\ UNCHANGED wcb
            ELSE IF wcb[w] < anomaly_callbacks_
              THEN /\ wcb' = [wcb EXCEPT ![w] = @ + 1]
                   /\ UNCHANGED <<mutex_, stats_mutex_, wpc, crashed>>
              ELSE /\ mutex_' = 0
                   /\ stats_mutex_' = 0
                   /\ wcb' = [wcb EXCEPT ![w] = 0]
                   /\ wpc' = [wpc EXCEPT ![w] = AfterAnomalyStage]
                   /\ UNCHANGED crashed
  /\ UNCHANGED <<config_, initialized_, shutdown_requested_, g_event_queue, queue_,
                 shutdown_, stats_, event_callbacks_,
                 anomaly_callbacks_, event_history_, next_event_id, workload, mpc,
                 ppc, pev, wev, wret, pushed, pushedAtShutdown, pendingAtShutdown, popped,
                 processed, imVars, events_, event_, fileVars, corrVars, detVars, patVars, history_ref, components_>>

\* event_history_.push_back under mutex_, evicting the oldest past max_history_size_
HistoryAppendMutant(h, e) ==
  IF Len(h) + 1 > max_history_size_ THEN h ELSE Append(h, e)
HistoryAppend(h, e) ==
  IF Len(h) + 1 > max_history_size_ THEN Tail(Append(h, e)) ELSE Append(h, e)

ProcHistory(w) ==
  /\ wpc[w] = "history" /\ ~crashed
  /\ mutex_ = 0
  /\ event_history_' = HistoryAppend(event_history_, wev[w])
  /\ wpc' = [wpc EXCEPT ![w] = "lock_ecb"]
  /\ UNCHANGED <<config_, initialized_, shutdown_requested_, g_event_queue, queue_,
                 shutdown_, stats_, mutex_, stats_mutex_, event_callbacks_,
                 anomaly_callbacks_, next_event_id, workload, crashed, mpc,
                 ppc, pev, wev, wret, wcb, pushed, pushedAtShutdown, pendingAtShutdown, popped,
                 processed, cbLog, imVars, events_, event_, fileVars, corrVars, detVars, patVars, history_ref, components_>>

\* The file sink at the end of process_event: if (log_file_.is_open()) the line
\* is inserted under file_mutex_; an insertion into a stream in the fail state
\* writes nothing.
WriteFile(event) ==
  IF log_file_.is_open /\ ~log_file_.fail
    THEN [files EXCEPT ![log_file_.path] = Append(@, event.id)]
    ELSE files

\* lock_guard lock(mutex_) of the event-callback block; the loop over
\* event_callbacks_ begins.  With no callback the block ends at once, the sinks
\* are written and process_event returns to the loop that called it.
ProcLockEventCb(w) ==
  /\ wpc[w] = "lock_ecb" /\ ~crashed
  /\ mutex_ = 0
  /\ IF event_callbacks_ = 0
       THEN /\ processed' = processed \cup {wev[w].id}
            /\ files' = WriteFile(wev[w])
            /\ wpc' = [wpc EXCEPT ![w] = wret[w]]
            /\ wev' = [wev EXCEPT ![w] = NoEvent]
            /\ UNCHANGED <<mutex_, wcb>>
       ELSE /\ mutex_' = w
            /\ wcb' = [wcb EXCEPT ![w] = 1]
            /\ wpc' = [wpc EXCEPT ![w] = "event_cb"]
            /\ UNCHANGED <<processed, wev, files>>
  /\ UNCHANGED <<config_, initialized_, shutdown_requested_, g_event_queue, queue_,
                 shutdown_, stats_, stats_mutex_, event_callbacks_,
                 anomaly_callbacks_, event_history_, next_event_id, workload, crashed, mpc,
                 ppc, pev, wret, pushed, pushedAtShutdown, pendingAtShutdown, popped,
                 cbLog, imVars, events_, event_, log_file_, corrVars, detVars, patVars, history_ref, components_>>

\* The worker is inside event callback wcb[w], holding mutex_.  It returns (and
\* after the last one the guard is released, the sinks are written and
\* process_event returns) or throws, as for the anomaly callbacks.
ProcEventCb(w) ==
  /\ wpc[w] = "event_cb" /\ ~crashed
  /\ \E outcome \in {"returns", "throws"} :
       /\ cbLog' = Append(cbLog, [ev |-> wev[w], list |-> "event", index |-> wcb[w],
                                 outcome |-> outcome])
       /\ IF outcome = "throws"
            THEN /\ mutex_' = 0
                 /\ wpc' = [wpc EXCEPT ![w] = "dead"]
                 /\ crashed' = TRUE
                 /\ UNCHANGED <<wcb, wev, processed, files>>
            ELSE IF wcb[w] < event_callbacks_
              THEN /\ wcb' = [wcb EXCEPT ![w] = @ + 1]
                   /\ UNCHANGED <<mutex_, wpc, wev, processed, crashed, files>>
              ELSE /\ mutex_' = 0
                   /\ processed' = processed \cup {wev[w].id}
                   /\ files' = WriteFile(wev[w])
                   /\ wpc' = [wpc EXCEPT ![w] = wret[w]]
                   /\ wev' = [wev EXCEPT ![w] = NoEvent]
                   /\ wcb' = [wcb EXCEPT ![w] = 0]
                   /\ UNCHANGED crashed
  /\ UNCHANGED <<config_, initialized_, shutdown_requested_, g_event_queue, queue_,
                 shutdown_, stats_, stats_mutex_, event_callbacks_,
                 anomaly_callbacks_, event_history_, next_event_id, workload, mpc,
                 ppc, pev, wret, pushed, pushedAtShutdown, pendingAtShutdown, popped, imVars, events_, event_,
                 log_file_, corrVars, detVars, patVars, history_ref, components_>>

\* ---- Logger::shutdown, the lifecycle thread

\* { lock(mutex_); if (!initialized_) return; shutdown_requested_ = true; }
ShutdownRequest ==
  /\ mpc = "running" /\ ~crashed
  /\ mutex_ = 0
  /\ initialized_
  /\ shutdown_requested_' = TRUE
  /\ pushedAtShutdown' = pushed
  /\ pendingAtShutdown' = pushed \ processed
  /\ mpc' = "signal"
  /\ UNCHANGED <<config_, initialized_, g_event_queue, queue_,
                 shutdown_, stats_, mutex_, stats_mutex_, event_callbacks_,
                 anomaly_callbacks_, event_history_, next_event_id, workload, crashed,
                 ppc, pev, wpc, wev, wret, wcb, pushed, popped,
                 processed, cbLog, imVars, events_, event_, fileVars, corrVars, detVars, patVars, history_ref, components_>>

\* g_event_queue->shutdown(): shutdown_ = true; notify_all
ShutdownSignal ==
  /\ mpc = "signal" /\ ~crashed
  /\ shutdown_' = TRUE
  /\ mpc' = "join"
  /\ UNCHANGED <<config_, initialized_, shutdown_requested_, g_event_queue, queue_,
                 stats_, mutex_, stats_mutex_, event_callbacks_,
                 anomaly_callbacks_, event_history_, next_event_id, workload, crashed,
                 ppc, pev, wpc, wev, wret, wcb, pushed, pushedAtShutdown, pendingAtShutdown, popped,
                 processed, cbLog, imVars, events_, event_, fileVars, corrVars, detVars, patVars, history_ref, components_>>

\* worker.join() for every worker; workers_.clear()
ShutdownJoin ==
  /\ mpc = "join" /\ ~crashed
  /\ \A w \in Workers : wpc[w] \in {"none", "exit"}
  /\ wpc' = [w \in Workers |-> "none"]
  /\ mpc' = "reset"
  /\ UNCHANGED <<config_, initialized_, shutdown_requested_, g_event_queue, queue_,
                 shutdown_, stats_, mutex_, stats_mutex_, event_callbacks_,
                 anomaly_callbacks_, event_history_, next_event_id, workload, crashed,
                 ppc, pev, wev, wret, wcb, pushed, pushedAtShutdown, pendingAtShutdown, popped,
                 processed, cbLog, imVars, events_, event_, fileVars, corrVars, detVars, patVars, history_ref, components_>>

\* g_event_queue.reset(): the queue and whatever it still holds are destroyed
ShutdownReset ==
  /\ mpc = "reset" /\ ~crashed
  /\ g_event_queue' = FALSE
  /\ queue_' = <<>>
  /\ mpc' = "finish"
  /\ UNCHANGED <<config_, initialized_, shutdown_requested_,
                 shutdown_, stats_, mutex_, stats_mutex_, event_callbacks_,
                 anomaly_callbacks_, event_history_, next_event_id, workload, crashed,
                 ppc, pev, wpc, wev, wret, wcb, pushed, pushedAtShutdown, pendingAtShutdown, popped,
                 processed, cbLog, imVars, events_, event_, fileVars, corrVars, detVars, patVars, history_ref, components_>>

\* lock(mutex_); initialized_ = false; shutdown() returns
ShutdownFinish ==
  /\ mpc = "finish" /\ ~crashed
  /\ mutex_ = 0
  /\ initialized_' = FALSE
  /\ mpc' = "down"
  /\ UNCHANGED <<config_, shutdown_requested_, g_event_queue, queue_,
                 shutdown_, stats_, mutex_, stats_mutex_, event_callbacks_,
                 anomaly_callbacks_, event_history_, next_event_id, workload, crashed,
                 ppc, pev, wpc, wev, wret, wcb, pushed, pushedAtShutdown, pendingAtShutdown, popped,
                 processed, cbLog, imVars, events_, event_, fileVars, corrVars, detVars, patVars, history_ref, components_>>

\* Logger::shutdown while not initialized: return under the first lock
ShutdownAgain ==
  /\ mpc \in {"new", "down"} /\ ~crashed
  /\ mutex_ = 0
  /\ ~initialized_
  /\ workload.shutdowns > 0
  /\ workload' = [workload EXCEPT !.shutdowns = @ - 1]
  /\ UNCHANGED <<config_, initialized_, shutdown_requested_, g_event_queue, queue_,
                 shutdown_, stats_, mutex_, stats_mutex_, event_callbacks_,
                 anomaly_callbacks_, event_history_, next_event_id, crashed, mpc, ppc, pev,
                 wpc, wev, wret, wcb, pushed, pushedAtShutdown, pendingAtShutdown, popped,
                 processed, cbLog, imVars, events_, event_, fileVars, corrVars, detVars, patVars, history_ref, components_>>

LoggerNext ==
  \/ \E cfg \in Configs : Init_(cfg)
  \/ on_event
  \/ on_anomaly
  \/ \E p \in Producers : EmitBegin(p)
  \/ \E p \in Producers : EmitStats(p)
  \/ \E p \in Producers : EmitPush(p)
  \/ \E p \in Producers : EmitDrop(p)
  \/ \E w \in Workers : WorkerLoop(w)
  \/ \E w \in Workers : WorkerPop(w)
  \/ \E w \in Workers : ProcLockStats(w)
  \/ \E w \in Workers : ProcLockCb(w)
  \/ \E w \in Workers : ProcAnomalyCb(w)
  \/ \E w \in Workers : ProcHistory(w)
  \/ \E w \in Workers : ProcLockEventCb(w)
  \/ \E w \in Workers : ProcEventCb(w)
  \/ ShutdownRequest
  \/ ShutdownSignal
  \/ ShutdownJoin
  \/ ShutdownReset
  \/ ShutdownFinish

\* ------------------------------------------------------ IncidentManager

\* Time is counted in units of five minutes.
deduplication_window == 1     \* std::chrono::minutes(5)
resolution_timeout == 3       \* std::chrono::minutes(15)
critical_threshold == 95
high_threshold == 85
medium_threshold == 75

MaxIncidents == 2      \* incident ids issued over a run
MaxResolves == 1       \* resolutions counted over a run
MaxTime == 4           \* the clock stops here
MaxCorr == 5           \* correlations handed to evaluate_event

NoTime == -1           \* std::nullopt of resolved_at
NoCause == "nullopt"   \* std::nullopt of root_cause

Statuses == {"OPEN", "INVESTIGATING", "IDENTIFIED", "MONITORING", "RESOLVED", "CLOSED"}
Severities == {"LOW", "MEDIUM", "HIGH", "CRITICAL"}

\* IncidentManagerConfig as the Logger and direct users set it
DefaultIMConfig ==
  [anomaly_threshold |-> 75, pattern_match_threshold |-> 1,
   correlated_events_threshold |-> 3, enable_auto_resolution |-> TRUE,
   enable_deduplication |-> TRUE]

\* the manager's defaults, the Logger's defaults (incident_anomaly_threshold 0.8),
\* and a configuration with a low score threshold and two patterns required
IMConfigs ==
  { DefaultIMConfig,
    [DefaultIMConfig EXCEPT !.anomaly_threshold = 80],
    [DefaultIMConfig EXCEPT !.anomaly_threshold = 50, !.pattern_match_threshold = 2] }

DefaultIMStats == [total_created |-> 0, currently_open |-> 0, resolved |-> 0,
                   deduplicated |-> 0]

NoCall == [op |-> "none"]

\* IncidentManager::calculate_severity
calculate_severityMutant(anomaly_score, pattern_matches, correlated_events) ==
  IF anomaly_score >= critical_threshold THEN "CRITICAL"
  ELSE IF anomaly_score >= medium_threshold \/ correlated_events >= 5 THEN "MEDIUM"
  ELSE IF anomaly_score >= high_threshold \/ pattern_matches >= 2 THEN "HIGH"
  ELSE "LOW"
calculate_severity(anomaly_score, pattern_matches, correlated_events) ==
  IF anomaly_score >= critical_threshold THEN "CRITICAL"
  ELSE IF anomaly_score >= high_threshold \/ pattern_matches >= 2 THEN "HIGH"
  ELSE IF anomaly_score >= medium_threshold \/ correlated_events >= 5 THEN "MEDIUM"
  ELSE "LOW"

\* The threshold test at the head of evaluate_event
should_createMutant(cfg, anomaly_score, matched_patterns, correlations) ==
  \/ anomaly_score > cfg.anomaly_threshold
  \/ Len(matched_patterns) >= cfg.pattern_match_threshold
  \/ Len(correlations) >= cfg.correlated_events_threshold
should_create(cfg, anomaly_score, matched_patterns, correlations) ==
  \/ anomaly_score >= cfg.anomaly_threshold
  \/ Len(matched_patterns) >= cfg.pattern_match_threshold
  \/ Len(correlations) >= cfg.correlated_events_threshold

\* The title evaluate_event builds
Title(event_type, matched_patterns) ==
  IF matched_patterns # <<>> THEN <<"Pattern detected: ", Head(matched_patterns)>>
  ELSE <<"Anomaly in ", event_type>>

RECURSIVE Concat(_)
Concat(ss) == IF ss = <<>> THEN <<>> ELSE Head(ss) \o Concat(Tail(ss))

\* incident.event_ids: the event, then every correlation's event ids
EventIds(event_id, correlations) == <<event_id>> \o Concat(correlations)

Range(s) == {s[i] : i \in 1..Len(s)}

\* The overlap count of find_duplicate
Overlap(ids, existing_ids) ==
  Cardinality({i \in 1..Len(ids) : ids[i] \in Range(existing_ids)})

\* One turn of find_duplicate's loop: existing makes incident a duplicate
IsDuplicateOfMutant(incident, existing) ==
  /\ ~(existing.created_at < incident.created_at - deduplication_window)
  /\ ~(existing.status = "RESOLVED" \/ existing.status = "CLOSED")
  /\ existing.title = incident.title /\ existing.severity = incident.severity
  /\ Overlap(incident.event_ids, existing.event_ids) > Len(incident.event_ids) \div 2
IsDuplicateOf(incident, existing) ==
  /\ ~(existing.created_at < incident.created_at - deduplication_window)
  /\ ~(existing.status = "RESOLVED" \/ existing.status = "CLOSED")
  /\ \/ existing.title = incident.title /\ existing.severity = incident.severity
     \/ Overlap(incident.event_ids, existing.event_ids) > Len(incident.event_ids) \div 2

\* IncidentManager::find_duplicate finds something
find_duplicate(incident) ==
  \E id \in DOMAIN incidents_ : IsDuplicateOf(incident, incidents_[id])

\* size_t arithmetic: 0 - 1 is 2^64 - 1, written -1 here (its two's-complement
\* reading), so that adding 1 gives 0 again.
Dec(x) == x - 1

\* No integration registered, nobody inside the manager
IntInit ==
  /\ integrations_ = 0
  /\ im_mutex_ = 0
  /\ ipc = "idle"
  /\ iidx = 0
  /\ icur = 0
  /\ intLog = <<>>

IMInit ==
  /\ im_config_ = DefaultIMConfig
  /\ incidents_ = <<>>
  /\ next_incident_id_ = 1
  /\ im_stats_ = DefaultIMStats
  /\ now = 0
  /\ lastEval = NoCall
  /\ IntInit

\* The incident evaluate_event builds before it looks for duplicates
Candidate(event, correlations, matched_patterns) ==
  [incident_id |-> next_incident_id_,
   title |-> Title(event.type, matched_patterns),
   severity |-> calculate_severity(event.score, Len(matched_patterns), Len(correlations)),
   status |-> "OPEN",
   created_at |-> now,
   resolved_at |-> NoTime,
   event_ids |-> EventIds(event.id, correlations),
   root_cause |-> NoCause]

\* IncidentManager::evaluate_event up to the point where the incident is
\* stored, under the manager's mutex
evaluate_event(event, correlations, matched_patterns) ==
  LET call == [op |-> "evaluate", event |-> event.id, score |-> event.score,
               patterns |-> Len(matched_patterns), correlations |-> Len(correlations)]
      inc == Candidate(event, correlations, matched_patterns)
  IN
  IF ~should_create(im_config_, event.score, matched_patterns, correlations)
    THEN /\ lastEval' = call @@ [result |-> "none"]
         /\ UNCHANGED <<incidents_, next_incident_id_, im_stats_>>
    ELSE /\ next_incident_id_ <= MaxIncidents
         /\ next_incident_id_' = next_incident_id_ + 1
         /\ IF im_config_.enable_deduplication /\ find_duplicate(inc)
              THEN /\ im_stats_' = [im_stats_ EXCEPT !.deduplicated = @ + 1]
                   /\ lastEval' = call @@ [result |-> "duplicate", title |-> inc.title,
                                           severity |-> inc.severity]
                   /\ UNCHANGED incidents_
              ELSE /\ incidents_' = (inc.incident_id :> inc) @@ incidents_
                   /\ im_stats_' = [im_stats_ EXCEPT !.total_created = @ + 1,
                                                     !.currently_open = @ + 1]
                   /\ lastEval' = call @@ [result |-> "created", title |-> inc.title,
                                           severity |-> inc.severity]

\* The incident stage of Logger::process_event: evaluate_event, then
\* stats_.incidents_created++ when it returned an incident.
ProcIncident(event, correlations, matched_patterns) ==
  /\ evaluate_event(event, correlations, matched_patterns)
  /\ stats_' = IF lastEval'.result = "created"
                 THEN [stats_ EXCEPT !.incidents_created = @ + 1]
                 ELSE stats_
  /\ UNCHANGED <<im_config_, now>>

\* IncidentManager::create_incident
create_incident(title, severity, event_ids) ==
  /\ next_incident_id_ <= MaxIncidents
  /\ next_incident_id_' = next_incident_id_ + 1
  /\ incidents_' = (next_incident_id_ :>
                      [incident_id |-> next_incident_id_, title |-> title,
                       severity |-> severity, status |-> "OPEN", created_at |-> now,
                       resolved_at |-> NoTime, event_ids |-> event_ids,
                       root_cause |-> NoCause]) @@ incidents_
  /\ im_stats_' = [im_stats_ EXCEPT !.total_created = @ + 1, !.currently_open = @ + 1]
  /\ lastEval' = NoCall
  /\ UNCHANGED <<im_config_, now, stats_>>

\* IncidentManager::update_status
update_status(incident_id, new_status) ==
  /\ IF incident_id \in DOMAIN incidents_
       THEN incidents_' = [incidents_ EXCEPT ![incident_id].status = new_status]
       ELSE UNCHANGED incidents_
  /\ lastEval' = NoCall
  /\ UNCHANGED <<im_config_, next_incident_id_, im_stats_, now, stats_>>

\* IncidentManager::resolve_incident
Resolve(incident_id, resolution) ==
  /\ IF incident_id \in DOMAIN incidents_
       THEN /\ incidents_' = [incidents_ EXCEPT ![incident_id].status = "RESOLVED",
                                                ![incident_id].resolved_at = now,
                                                ![incident_id].root_cause = resolution]
            /\ im_stats_' = [im_stats_ EXCEPT !.currently_open = Dec(@),
                                              !.resolved = @ + 1]
       ELSE UNCHANGED <<incidents_, im_stats_>>
  /\ lastEval' = NoCall
  /\ UNCHANGED <<im_config_, next_incident_id_, now, stats_>>

\* resolve_incident while fewer than MaxResolves resolutions were counted
resolve_incident(incident_id, resolution) ==
  /\ im_stats_.resolved < MaxResolves
  /\ Resolve(incident_id, resolution)

\* auto_resolve_stale_incidents changes this incident
IsStale(incident) ==
  /\ incident.status = "OPEN" \/ incident.status = "INVESTIGATING"
  /\ incident.created_at < now - resolution_timeout

\* IncidentManager::auto_resolve_stale_incidents
AutoResolve ==
  /\ IF ~im_config_.enable_auto_resolution
       THEN UNCHANGED <<incidents_, im_stats_>>
       ELSE LET stale == {id \in DOMAIN incidents_ : IsStale(incidents_[id])} IN
            /\ incidents_' =
                 [id \in DOMAIN incidents_ |->
                    IF id \in stale
                      THEN [incidents_[id] EXCEPT
                              !.status = "RESOLVED", !.resolved_at = now,
                              !.root_cause = "Auto-resolved: no further activity"]
                      ELSE incidents_[id]]
            /\ im_stats_' = [im_stats_ EXCEPT
                               !.currently_open = @ - Cardinality(stale),
                               !.resolved = @ + Cardinality(stale)]
  /\ lastEval' = NoCall
  /\ UNCHANGED <<im_config_, next_incident_id_, now, stats_>>

\* auto_resolve_stale_incidents while it keeps the resolutions counted within
\* MaxResolves
auto_resolve_stale_incidents ==
  /\ im_config_.enable_auto_resolution =>
       im_stats_.resolved
         + Cardinality({id \in DOMAIN incidents_ : IsStale(incidents_[id])}) <= MaxResolves
  /\ AutoResolve

\* system_clock moves on
Tick ==
  /\ now < MaxTime
  /\ now' = now + 1
  /\ UNCHANGED <<im_config_, incidents_, next_incident_id_, im_stats_, lastEval, stats_>>

loggerVarsButStats ==
  <<config_, initialized_, shutdown_requested_, g_event_queue, queue_,
    shutdown_, mutex_, stats_mutex_, event_callbacks_,
    anomaly_callbacks_, event_history_, next_event_id, workload, crashed,
    mpc, ppc, pev, wpc, wev, wret, wcb,
    pushed, pushedAtShutdown, pendingAtShutdown, popped, processed, cbLog, events_,
    event_, fileVars, corrVars, detVars, patVars, history_ref, components_>>

\* Inputs of the lifecycle specification
Scores == {0, 80, 95}
EventTypes == {"payment.failed"}
PatternLists == {<<>>}
Events == [id : {1, 2}, type : EventTypes, score : Scores]
StatusesSet == {"OPEN", "INVESTIGATING", "MONITORING", "RESOLVED", "CLOSED"}
Resolutions == {"fixed"}
IdsAsked == 1..(MaxIncidents + 1)      \* one id that is never issued

IMEvaluate ==
  /\ \E e \in Events, m \in PatternLists : ProcIncident(e, <<>>, m)
  /\ UNCHANGED <<loggerVarsButStats, intVars>>

IMCreate ==
  /\ create_incident(<<"manual", "">>, "LOW", <<>>)
  /\ UNCHANGED <<loggerVarsButStats, intVars>>

IMUpdate ==
  /\ \E id \in IdsAsked, st \in StatusesSet : update_status(id, st)
  /\ UNCHANGED <<loggerVarsButStats, intVars>>

IMResolve ==
  /\ \E id \in IdsAsked, r \in Resolutions : resolve_incident(id, r)
  /\ UNCHANGED <<loggerVarsButStats, intVars>>

IMAutoResolve ==
  /\ auto_resolve_stale_incidents
  /\ UNCHANGED <<loggerVarsButStats, intVars>>

IMTick ==
  /\ Tick
  /\ UNCHANGED <<loggerVarsButStats, intVars>>

IMNext ==
  \/ IMEvaluate
  \/ IMCreate
  \/ IMUpdate
  \/ IMResolve
  \/ IMAutoResolve
  \/ IMTick

\* Inputs of the evaluation specification: the thresholds' neighbours
GridScores == {0, 74, 75, 84, 85, 94, 95}
GridPatternLists == {<<>>, <<"retry_storm">>, <<"retry_storm", "exception_detected">>}
GridCorrelations == {[k \in 1..n |-> <<1>>] : n \in 0..MaxCorr}
GridEvents == [id : {1}, type : EventTypes, score : GridScores]

\* A manager holding one incident made by create_incident at time 0
OneManual ==
  (1 :> [incident_id |-> 1, title |-> <<"manual", "">>, severity |-> "LOW",
         status |-> "OPEN", created_at |-> 0, resolved_at |-> NoTime,
         event_ids |-> <<1>>, root_cause |-> NoCause])

\* The manager is fresh or holds one incident; one event is then evaluated.
EvalInit ==
  /\ LoggerInitWith(QuietWorkload)
  /\ im_config_ \in IMConfigs
  /\ \/ /\ incidents_ = <<>>
        /\ next_incident_id_ = 1
        /\ im_stats_ = DefaultIMStats
     \/ /\ incidents_ = OneManual
        /\ next_incident_id_ = 2
        /\ im_stats_ = [DefaultIMStats EXCEPT !.total_created = 1, !.currently_open = 1]
  /\ now \in 0..MaxTime
  /\ lastEval = NoCall
  /\ IntInit

EvalNext ==
  /\ lastEval = NoCall
  /\ \E e \in GridEvents, c \in GridCorrelations, m \in GridPatternLists :
        ProcIncident(e, c, m)
  /\ UNCHANGED <<loggerVarsButStats, intVars>>

\* ------------------------------------- IncidentManager: integrations

MaxIntegrations == 2   \* integrations registered

\* What IncidentIntegration::create_incident can do: return an external id
\* (the built-in integrations return an error id when the request fails),
\* throw an exception derived from std::exception, throw anything else
IntegrationOutcomes == {"returns", "std_exception", "other_exception"}

\* IncidentManager::register_integration
register_integration ==
  /\ ipc \in {"idle", "returned"}
  /\ integrations_ < MaxIntegrations
  /\ integrations_' = integrations_ + 1
  /\ ipc' = "idle"
  /\ UNCHANGED <<im_config_, incidents_, next_incident_id_, im_stats_, now, lastEval,
                 im_mutex_, iidx, icur, intLog, loggerVars>>

\* evaluate_event called by a thread: the incident is stored under the mutex
\* and the loop over integrations_ is entered with the mutex held; a call that
\* stores nothing returns at once.
IntEvaluate ==
  /\ ipc \in {"idle", "returned"}
  /\ \E e \in Events : evaluate_event(e, <<>>, <<>>)
  /\ IF lastEval'.result = "created"
       THEN /\ im_mutex_' = 1
            /\ ipc' = "integrations"
            /\ iidx' = 1
            /\ icur' = next_incident_id_
       ELSE /\ ipc' = "idle"
            /\ UNCHANGED <<im_mutex_, iidx, icur>>
  /\ UNCHANGED <<im_config_, now, integrations_, intLog, loggerVars>>

\* create_incident called by a thread, up to the loop over integrations_
IntCreate ==
  /\ ipc \in {"idle", "returned"}
  /\ create_incident(<<"manual", "">>, "LOW", <<>>)
  /\ im_mutex_' = 1
  /\ ipc' = "integrations"
  /\ iidx' = 1
  /\ icur' = next_incident_id_
  /\ UNCHANGED <<integrations_, intLog, loggerVarsButStats>>

\* integration->create_incident(incident) is called: a network request
IntCall ==
  /\ ipc = "integrations"
  /\ iidx <= integrations_
  /\ ipc' = "network"
  /\ UNCHANGED <<im_config_, incidents_, next_incident_id_, im_stats_, now, lastEval,
                 integrations_, im_mutex_, iidx, icur, intLog, loggerVars>>

\* The integration's call ends: catch (const std::exception&) takes what it
\* names and the loop goes on; any other exception leaves the function, and
\* the lock_guard releases the mutex on the way out.
IntCallEnd ==
  /\ ipc = "network"
  /\ \E outcome \in IntegrationOutcomes :
        /\ intLog' = Append(intLog, [incident |-> icur, index |-> iidx,
                                     outcome |-> outcome])
        /\ IF outcome = "other_exception"
             THEN /\ ipc' = "escaped"
                  /\ im_mutex_' = 0
                  /\ UNCHANGED iidx
             ELSE /\ ipc' = "integrations"
                  /\ iidx' = iidx + 1
                  /\ UNCHANGED im_mutex_
  /\ UNCHANGED <<im_config_, incidents_, next_incident_id_, im_stats_, now, lastEval,
                 integrations_, icur, loggerVars>>

\* The loop is over: the incident is returned and the mutex released
IntReturn ==
  /\ ipc = "integrations"
  /\ iidx > integrations_
  /\ ipc' = "returned"
  /\ im_mutex_' = 0
  /\ UNCHANGED <<im_config_, incidents_, next_incident_id_, im_stats_, now, lastEval,
                 integrations_, iidx, icur, intLog, loggerVars>>

IntNext ==
  \/ register_integration
  \/ IntEvaluate
  \/ IntCreate
  \/ IntCall
  \/ IntCallEnd
  \/ IntReturn

\* ------------------- Logger: the pattern, correlation and incident stages

\* PatternFactory::cascading_failure: the event types of its steps.  The
\* steps' time limits (10 s, 5 s, 3 s) are not modelled: the events of a run are
\* taken to lie within one second.
cascading_failure == <<"database.slow", "api.timeout", "user.error">>

\* One producer emits the three events of the cascade, in their order; pattern
\* matching, correlation and automatic incidents are enabled.
CascadeWorkload ==
  [emits |-> <<Len(cascading_failure), 0>>, callbacks |-> 0, anomalies |-> FALSE,
   patterns |-> TRUE, types |-> cascading_failure,
   builder |-> FALSE, severities |-> <<>>, scores |-> <<>>,
     inits |-> 0, shutdowns |-> 0, reinits |-> 0]

\* The backward walk of SequentialPattern::match through the context: i is the
\* position looked at, current_step the number of steps still to be found.
RECURSIVE Walk(_, _, _, _)
Walk(steps_, context, i, current_step) ==
  IF i = 0 \/ current_step = 0 THEN current_step
  ELSE IF context[i].type = steps_[current_step]
         THEN Walk(steps_, context, i - 1, current_step - 1)
         ELSE Walk(steps_, context, i - 1, current_step)

\* SequentialPattern::match, the score in hundredths
SequentialPattern_match(steps_, event, context) ==
  IF steps_ = <<>> THEN 0
  ELSE IF event.type # steps_[Len(steps_)] THEN 0
  ELSE IF Len(steps_) = 1 THEN 100
  ELSE LET current_step == Walk(steps_, context, Len(context), Len(steps_) - 1)
       IN IF current_step = 0 THEN 100
          ELSE ((Len(steps_) - current_step) * 50) \div Len(steps_)

\* PatternEngine::match_patterns over the built-in patterns, as the names of
\* the matches.  Of the four built-in patterns only cascading_failure can match
\* an event of these types with an empty message.
match_patterns(event, context) ==
  IF SequentialPattern_match(cascading_failure, event, context) > 50
    THEN <<"cascading_failure">> ELSE <<>>

\* The ids of a set, as a sequence in increasing order
RECURSIVE Ascending(_)
Ascending(ids) ==
  IF ids = {} THEN <<>>
  ELSE LET least == CHOOSE i \in ids : \A j \in ids : i <= j
       IN <<least>> \o Ascending(ids \ {least})

\* EventCorrelator::correlate for an event with no trace id, no entity and no
\* service name: only correlate_by_time can find something, and it does when at
\* least two other stored events are near in time.  Each correlation is given
\* as its event_ids.
correlate(event) ==
  IF Cardinality(events_ \ {event.id}) >= 2
    THEN << Ascending(events_ \ {event.id}) \o <<event.id>> >>
    ELSE <<>>

\* The manager Logger::init builds from the Logger's default thresholds
LoggerIMConfig == [DefaultIMConfig EXCEPT !.anomaly_threshold = 80]

\* process_event between the anomaly stage and the history: match_patterns on
\* the history as it is now (read without mutex_), patterns_matched, correlate,
\* correlations_found, evaluate_event, incidents_created.  The processed copy
\* of the event is not written to in these stages.
Analyze(w, context) ==
  /\ ~crashed
  /\ stats_mutex_ = 0
  /\ LET matched_patterns == match_patterns(wev[w], context)
         correlations == correlate(wev[w])
     IN /\ events_' = events_ \cup {wev[w].id}
        /\ evaluate_event([id |-> wev[w].id, type |-> wev[w].type, score |-> wev[w].anomaly_score],
                          correlations, matched_patterns)
        /\ stats_' = [stats_ EXCEPT
                        !.patterns_matched = @ + Len(matched_patterns),
                        !.correlations_found = @ + Len(correlations),
                        !.incidents_created =
                           IF lastEval'.result = "created" THEN @ + 1 ELSE @]
  /\ wpc' = [wpc EXCEPT ![w] = "history"]
  /\ UNCHANGED <<config_, initialized_, shutdown_requested_, g_event_queue, queue_,
                 shutdown_, mutex_, stats_mutex_, event_callbacks_,
                 anomaly_callbacks_, event_history_, next_event_id, workload, crashed, mpc,
                 ppc, pev, wev, wret, wcb, pushed, pushedAtShutdown, pendingAtShutdown,
                 popped, processed, cbLog, im_config_, now, intVars, event_, fileVars, corrVars,
                 detVars, patVars, components_>>

ProcAnalyze(w) ==
  /\ wpc[w] = "analyze"
  /\ Analyze(w, event_history_)
  /\ UNCHANGED history_ref

CascadeInit ==
  /\ LoggerInitWith(CascadeWorkload)
  /\ im_config_ = LoggerIMConfig
  /\ incidents_ = <<>>
  /\ next_incident_id_ = 1
  /\ im_stats_ = DefaultIMStats
  /\ now = 0
  /\ lastEval = NoCall
  /\ IntInit

\* The Logger with no callback registered
CascadeNext ==
  \/ \E cfg \in Configs : Init_(cfg)
  \/ \E p \in Producers : EmitBegin(p)
  \/ \E p \in Producers : EmitStats(p)
  \/ \E p \in Producers : EmitPush(p)
  \/ \E p \in Producers : EmitDrop(p)
  \/ \E w \in Workers : WorkerLoop(w)
  \/ \E w \in Workers : WorkerPop(w)
  \/ \E w \in Workers : ProcAnalyze(w)
  \/ \E w \in Workers : ProcHistory(w)
  \/ \E w \in Workers : ProcLockEventCb(w)
  \/ ShutdownRequest
  \/ ShutdownSignal
  \/ ShutdownJoin
  \/ ShutdownReset
  \/ ShutdownFinish

\* ---- The producer side with a kept builder and sampling configured

\* One producer keeps its builders; the events built first, second and third
\* are an ERROR, an INFO event the application scored as anomalous, and an INFO
\* event scored just below.
EmitWorkload ==
  [emits |-> <<3, 0>>, callbacks |-> 0, anomalies |-> FALSE,
   patterns |-> FALSE, types |-> <<>>,
   builder |-> TRUE, severities |-> <<ERROR, INFO, INFO>>,
   scores |-> <<0, AnomalousScore, AnomalousScore - 1>>,
     inits |-> 0, shutdowns |-> 0, reinits |-> 0]

SamplingConfigs == [async_queue_size : 1..MaxQueue, worker_threads : {0, 1},
                    sampling_rate : {0, 50, 100}, sample_anomalies_always : BOOLEAN,
                    log_file_path : {NoPath}]

EmitInit == LoggerInitWith(EmitWorkload) /\ IMInit

EmitNext ==
  \/ \E cfg \in SamplingConfigs : Init_(cfg)
  \/ \E p \in Producers : EmitBegin(p)
  \/ \E p \in Producers : EmitAgain(p)
  \/ \E p \in Producers : EmitStats(p)
  \/ \E p \in Producers : EmitPush(p)
  \/ \E p \in Producers : EmitDrop(p)
  \/ \E w \in Workers : WorkerLoop(w)
  \/ \E w \in Workers : WorkerPop(w)
  \/ \E w \in Workers : ProcHistory(w)
  \/ \E w \in Workers : ProcLockEventCb(w)
  \/ ShutdownRequest
  \/ ShutdownSignal
  \/ ShutdownJoin
  \/ ShutdownReset
  \/ ShutdownFinish

\* ---- The anomaly stage followed by the incident stage

\* One producer emits two events with metrics; callbacks are registered, the
\* detector scores each event at or just below 0.7, and the incident manager
\* is configured with an incident_anomaly_threshold below or above that.
AnomalyWorkload ==
  [emits |-> <<2, 0>>, callbacks |-> MaxCallbacks, anomalies |-> TRUE,
   patterns |-> TRUE, types |-> <<>>,
   builder |-> FALSE, severities |-> <<>>, scores |-> <<>>,
     inits |-> 0, shutdowns |-> 0, reinits |-> 0]

IncidentThresholds == {50, 80}

AnomalyInit ==
  /\ LoggerInitWith(AnomalyWorkload)
  /\ im_config_ \in {[LoggerIMConfig EXCEPT !.anomaly_threshold = t] :
                        t \in IncidentThresholds}
  /\ incidents_ = <<>>
  /\ next_incident_id_ = 1
  /\ im_stats_ = DefaultIMStats
  /\ now = 0
  /\ lastEval = NoCall
  /\ IntInit

AnomalyNext ==
  \/ LoggerNext
  \/ \E w \in Workers : ProcAnalyze(w)

\* ---- A logger that has been running for a while

\* The application has two more events to emit.
HistoryWorkload ==
  [emits |-> <<2, 0>>, callbacks |-> 0, anomalies |-> FALSE,
   patterns |-> FALSE, types |-> <<>>,
   builder |-> FALSE, severities |-> <<>>, scores |-> <<>>,
     inits |-> 0, shutdowns |-> 0, reinits |-> 0]

\* Events the logger has processed before
PastEvents == {max_history_size_ - 1, max_history_size_}

PastEvent(i) == [id |-> i, src |-> 1, type |-> DefaultType, severity |-> INFO,
                 anomaly_score |-> 0, incident_id |-> NoIncidentId,
                 trace_id |-> "", entities |-> {}, service_name |-> "", timestamp |-> 0]

\* The state of a logger initialized with cfg after producer 1 emitted n
\* events, none was dropped, and the workers processed them in order and wait
\* in pop again.
RunningLogger(wl, cfg, n) ==
  /\ workload = wl
  /\ config_ = cfg
  /\ initialized_ = TRUE
  /\ shutdown_requested_ = FALSE
  /\ g_event_queue = TRUE
  /\ queue_ = <<>>
  /\ shutdown_ = FALSE
  /\ stats_ = [DefaultStats EXCEPT !.events_total = n]
  /\ mutex_ = 0
  /\ stats_mutex_ = 0
  /\ event_callbacks_ = 0
  /\ anomaly_callbacks_ = 0
  /\ event_history_ = [i \in 1..n |-> PastEvent(i)]
  /\ next_event_id = n + 1
  /\ crashed = FALSE
  /\ mpc = "running"
  /\ ppc = [p \in Producers |-> "idle"]
  /\ pev = [p \in Producers |-> NoEvent]
  /\ wpc = [w \in Workers |-> IF w <= cfg.worker_threads THEN "pop" ELSE "none"]
  /\ wev = [w \in Workers |-> NoEvent]
  /\ wret = [w \in Workers |-> IF w <= cfg.worker_threads THEN "loop" ELSE "none"]
  /\ wcb = [w \in Workers |-> 0]
  /\ pushed = 1..n
  /\ pushedAtShutdown = {}
  /\ pendingAtShutdown = {}
  /\ popped = [i \in 1..n |-> PastEvent(i)]
  /\ processed = 1..n
  /\ events_ = {}
  /\ event_ = [p \in Producers |-> NoEvent]
  /\ log_file_ = ClosedFile
  /\ files = [f \in Paths |-> <<>>]
  /\ correlator_ = EmptyCorrelator
  /\ relationships_ = BuiltinRelationships
  /\ lastCorr = NoCorr
  /\ DetectorInit
  /\ match_count_ = 0
  /\ lastMatch = NoMatch
  /\ PatternInit
  /\ history_ref = [w \in Workers |-> NoRef]
  /\ components_ = ConstructComponents(cfg, NoComponents)
  /\ cbLog = <<>>
  /\ IMInit

HistoryInit ==
  \E n \in PastEvents, cfg \in Configs :
    /\ cfg.worker_threads >= 1
    /\ RunningLogger(HistoryWorkload, cfg, n)

HistoryNext ==
  \/ \E p \in Producers : EmitBegin(p)
  \/ \E p \in Producers : EmitStats(p)
  \/ \E p \in Producers : EmitPush(p)
  \/ \E p \in Producers : EmitDrop(p)
  \/ \E w \in Workers : WorkerLoop(w)
  \/ \E w \in Workers : WorkerPop(w)
  \/ \E w \in Workers : ProcHistory(w)
  \/ \E w \in Workers : ProcLockEventCb(w)
  \/ ShutdownRequest
  \/ ShutdownSignal
  \/ ShutdownJoin
  \/ ShutdownReset
  \/ ShutdownFinish

\* ---- The lifecycle: redundant calls, a second init after shutdown, log files

\* One producer emits three events; the application calls init once more while
\* the logger runs, shutdown once more while it is down, and init again after
\* shutdown.
LifeWorkload ==
  [emits |-> <<3, 0>>, callbacks |-> 0, anomalies |-> FALSE,
   patterns |-> FALSE, types |-> <<>>,
   builder |-> FALSE, severities |-> <<>>, scores |-> <<>>,
   inits |-> 1, shutdowns |-> 1, reinits |-> 1]

LifeConfigs == [async_queue_size : {1}, worker_threads : {0, 1},
                sampling_rate : {100}, sample_anomalies_always : {TRUE},
                log_file_path : {NoPath} \cup Paths]

LifeInit == LoggerInitWith(LifeWorkload) /\ IMInit

LifeNext ==
  \/ \E cfg \in LifeConfigs : Init_(cfg)
  \/ \E cfg \in LifeConfigs : ReInit(cfg)
  \/ \E cfg \in LifeConfigs : InitAgain(cfg)
  \/ ShutdownAgain
  \/ \E p \in Producers : EmitBegin(p)
  \/ \E p \in Producers : EmitStats(p)
  \/ \E p \in Producers : EmitPush(p)
  \/ \E p \in Producers : EmitDrop(p)
  \/ \E w \in Workers : WorkerLoop(w)
  \/ \E w \in Workers : WorkerPop(w)
  \/ \E w \in Workers : ProcHistory(w)
  \/ \E w \in Workers : ProcLockEventCb(w)
  \/ ShutdownRequest
  \/ ShutdownSignal
  \/ ShutdownJoin
  \/ ShutdownReset
  \/ ShutdownFinish

\* ---- CorrelationEngine: EventCorrelator, CausalityAnalyzer, RootCauseAnalyzer

MaxCorrEvents == 3

\* The orders in which an unordered container may hand out the elements of S
Orderings(S) ==
  {q \in [1..Cardinality(S) -> S] : \A i, j \in 1..Cardinality(S) : i # j => q[i] # q[j]}

\* Each strategy returns a sequence holding the correlation found, or nothing.
correlate_by_trace_id(c, event) ==
  IF event.trace_id = "" THEN <<>>
  ELSE IF c.trace_id_index_[event.trace_id] = <<>> THEN <<>>
  ELSE << [correlation_type |-> "trace_id", confidence |-> 100,
           last_event_time |-> event.timestamp,
           event_ids |-> Append(c.trace_id_index_[event.trace_id], event.id)] >>

\* The other events found under the entity values of the event (an unordered_set)
related_events(c, event) ==
  {id \in UNION {Range(c.entity_index_[v]) : v \in event.entities} : id # event.id}

\* order: the iteration order of related_events
correlate_by_entities(c, event, order) ==
  IF related_events(c, event) = {} THEN <<>>
  ELSE << [correlation_type |-> "entity", confidence |-> 80,
           last_event_time |-> event.timestamp,
           event_ids |-> Append(order, event.id)] >>

\* Only events of the same service no older than a minute
IsRecent(c, event, id) ==
  id \in DOMAIN c.events_ /\ c.events_[id].timestamp >= event.timestamp - 60000
correlate_by_service(c, event) ==
  IF event.service_name = "" THEN <<>>
  ELSE IF c.service_index_[event.service_name] = <<>> THEN <<>>
  ELSE LET Recent(id) == IsRecent(c, event, id)
           recent_events == SelectSeq(c.service_index_[event.service_name], Recent)
       IN IF recent_events = <<>> THEN <<>>
          ELSE << [correlation_type |-> "service", confidence |-> 60,
                   last_event_time |-> event.timestamp,
                   event_ids |-> Append(recent_events, event.id)] >>

Abs(x) == IF x < 0 THEN -x ELSE x

\* The other stored events within five seconds (found iterating an unordered_map)
nearby_events(c, event) ==
  {id \in DOMAIN c.events_ :
     Abs(event.timestamp - c.events_[id].timestamp) <= 5000 /\ id # event.id}

\* order: the iteration order of events_ restricted to nearby_events
correlate_by_time(c, event, order) ==
  IF Cardinality(nearby_events(c, event)) < 2 THEN <<>>
  ELSE << [correlation_type |-> "temporal", confidence |-> 40,
           last_event_time |-> event.timestamp,
           event_ids |-> Append(order, event.id)] >>

\* EventCorrelator::correlate under its mutex: the four strategies, then the
\* event is stored, the indices are updated and the correlations found are kept.
\* Returns the correlations found and the correlator afterwards.
EventCorrelator_correlate(c, event, entity_order, time_order) ==
  LET found_correlations ==
        correlate_by_trace_id(c, event) \o correlate_by_entities(c, event, entity_order)
          \o correlate_by_service(c, event) \o correlate_by_time(c, event, time_order)
  IN [found |-> found_correlations,
      correlator |->
        [events_ |-> (event.id :> event) @@ c.events_,
         trace_id_index_ |->
           [t \in TraceIds |-> IF event.trace_id = t
                                 THEN Append(c.trace_id_index_[t], event.id)
                                 ELSE c.trace_id_index_[t]],
         entity_index_ |->
           [v \in EntityValues |-> IF v \in event.entities
                                     THEN Append(c.entity_index_[v], event.id)
                                     ELSE c.entity_index_[v]],
         service_index_ |->
           [n \in Services |-> IF event.service_name = n
                                 THEN Append(c.service_index_[n], event.id)
                                 ELSE c.service_index_[n]],
         correlations_ |-> c.correlations_ \o found_correlations]]

EventCorrelator_cleanupMutant(c, cutoff, order) ==
  LET kept == {id \in DOMAIN c.events_ : ~(c.events_[id].timestamp < cutoff)}
      Fresh(corr) == ~(corr.last_event_time < cutoff)
  IN [c EXCEPT !.events_ = [id \in kept |-> c.events_[id]],
               !.correlations_ = SelectSeq(c.correlations_, Fresh)]

\* EventCorrelator::cleanup with cutoff = now - max_age: the events and the
\* correlations older than the cutoff are erased and the indices are rebuilt
\* from the events left, in the order the unordered_map hands them out
EventCorrelator_cleanup(c, cutoff, order) ==
  LET kept == {id \in DOMAIN c.events_ : ~(c.events_[id].timestamp < cutoff)}
      Fresh(corr) == ~(corr.last_event_time < cutoff)
  IN [events_ |-> [id \in kept |-> c.events_[id]],
      correlations_ |-> SelectSeq(c.correlations_, Fresh),
      trace_id_index_ |->
        [t \in TraceIds |->
           LET Has(id) == c.events_[id].trace_id = t IN SelectSeq(order, Has)],
      entity_index_ |->
        [v \in EntityValues |->
           LET Has(id) == v \in c.events_[id].entities IN SelectSeq(order, Has)],
      service_index_ |->
        [n \in Services |->
           LET Has(id) == c.events_[id].service_name = n IN SelectSeq(order, Has)]]

\* A value-initialized CausalRelationship, as relationships_[pair] inserts it
NewRelationship ==
  [type |-> "CAUSES", strength |-> 0, typical_delay |-> 0, observed_count |-> 0]

\* One pass of the loop body of CausalityAnalyzer::learn for prev_event
LearnPair(rels, event, prev_event) ==
  LET pair == <<prev_event.type, event.type>>
      delay == event.timestamp - prev_event.timestamp
      rel == IF pair \in DOMAIN rels THEN rels[pair] ELSE NewRelationship
      first == IF rel.observed_count = 0
                 THEN [rel EXCEPT !.type = "PRECEDES", !.strength = 10,
                                  !.typical_delay = delay]
                 ELSE rel
      counted == [first EXCEPT !.observed_count = @ + 1]
      \* integer division of the duration's count truncates toward zero
      Quot(a, b) == IF a >= 0 THEN a \div b ELSE -((-a) \div b)
      averaged == [counted EXCEPT !.typical_delay =
                     Quot(first.typical_delay * (counted.observed_count - 1) + delay,
                          counted.observed_count)]
      MinStrength(a, b) == IF a < b THEN a ELSE b
  IN (pair :> [averaged EXCEPT !.strength = MinStrength(100, @ + 5)]) @@ rels

\* CausalityAnalyzer::learn: the loop over the context from position i on,
\* skipping events older than 60 seconds
RECURSIVE learn(_, _, _, _)
learn(rels, event, context, i) ==
  IF i > Len(context) THEN rels
  ELSE IF context[i].timestamp < event.timestamp - 60000
    THEN learn(rels, event, context, i + 1)
    ELSE learn(LearnPair(rels, event, context[i]), event, context, i + 1)

\* RootCauseAnalyzer::find_root_cause: nothing for an empty correlation, else
\* the front of event_ids with 0.7 of the correlation's confidence
find_root_cause(correlation) ==
  IF correlation.event_ids = <<>> THEN <<>>
  ELSE << [root_event_id |-> Head(correlation.event_ids),
           affected_event_ids |-> correlation.event_ids,
           confidence |-> (correlation.confidence * 7) \div 10] >>

\* The events the application builds for the correlation engine: the k-th has
\* id k; timestamps in milliseconds do not decrease with the id.
CorrTypes == {"database.slow", "api.timeout"}
CorrTimes == {0, 70000}
CorrEvents ==
  {[NoEvent EXCEPT !.id = k, !.src = 1, !.type = ty, !.trace_id = tr,
                   !.entities = en, !.service_name = sv, !.timestamp = ts] :
     k \in 1..MaxCorrEvents, ty \in CorrTypes, tr \in {""} \cup TraceIds,
     en \in SUBSET EntityValues, sv \in {""} \cup Services, ts \in CorrTimes}

\* The correlation stage of process_event followed by the history append, run
\* by a worker for an event no worker has processed yet (the workers take the
\* events in any order): CorrelationEngine::process correlates, learns and
\* analyzes, then process_event calls the correlator once more and counts what
\* that call returns.
CorrelationStage(event) ==
  /\ event.id \notin DOMAIN correlator_.events_
  /\ \A id \in DOMAIN correlator_.events_ :
       /\ id < event.id => correlator_.events_[id].timestamp <= event.timestamp
       /\ id > event.id => correlator_.events_[id].timestamp >= event.timestamp
  /\ \E eo1 \in Orderings(related_events(correlator_, event)),
        to1 \in Orderings(nearby_events(correlator_, event)) :
       LET first == EventCorrelator_correlate(correlator_, event, eo1, to1)
       IN \E eo2 \in Orderings(related_events(first.correlator, event)),
             to2 \in Orderings(nearby_events(first.correlator, event)) :
            LET second == EventCorrelator_correlate(first.correlator, event, eo2, to2)
            IN /\ correlator_' = second.correlator
               /\ lastCorr' = [event |-> event, found |-> second.found]
               /\ stats_' = [stats_ EXCEPT !.correlations_found = @ + Len(second.found)]
  /\ relationships_' = learn(relationships_, event, event_history_, 1)
  /\ event_history_' = HistoryAppend(event_history_, event)
  /\ UNCHANGED <<config_, initialized_, shutdown_requested_, g_event_queue, queue_,
                 shutdown_, mutex_, stats_mutex_, event_callbacks_, anomaly_callbacks_,
                 next_event_id, workload, crashed, mpc, ppc, pev, wpc, wev, wret, wcb,
                 pushed, pushedAtShutdown, pendingAtShutdown, popped, processed, cbLog,
                 imVars, events_, event_, fileVars, detVars, patVars, history_ref, components_>>

\* The logger after init with one worker, before any event was emitted: the
\* correlator is empty and the causality analyzer holds the built-in
\* relationships.
CorrInit ==
  RunningLogger(QuietWorkload,
                [async_queue_size |-> 1, worker_threads |-> 1, sampling_rate |-> 100,
                 sample_anomalies_always |-> TRUE, log_file_path |-> NoPath], 0)

CorrNext == \E event \in CorrEvents : CorrelationStage(event)

Init == LoggerInit /\ IMInit
Next == LoggerNext
Spec == Init /\ [][Next]_vars
IMSpecInit == LoggerInitWith(QuietWorkload) /\ IMInit
SpecIM == IMSpecInit /\ [][IMNext]_vars
SpecEval == EvalInit /\ [][EvalNext]_vars
SpecInt == IMSpecInit /\ [][IntNext]_vars
SpecCascade == CascadeInit /\ [][CascadeNext]_vars
SpecEmit == EmitInit /\ [][EmitNext]_vars
SpecAnomaly == AnomalyInit /\ [][AnomalyNext]_vars
SpecHistory == HistoryInit /\ [][HistoryNext]_vars
SpecLife == LifeInit /\ [][LifeNext]_vars
SpecCorr == CorrInit /\ [][CorrNext]_vars

\* ------------------------------------------------------------ Logger claims

Min(a, b) == IF a < b THEN a ELSE b

Idle == \A p \in Producers : ppc[p] = "idle"
InEmit == {p \in Producers : ppc[p] \in {"push", "drop"}}
QueueAlive == mpc \in {"running", "signal", "join"}

\* C1: the queue never holds more than async_queue_size events; an emit that
\* finds it full enqueues nothing and counts exactly one drop (every counted
\* event is in flight, was accepted, or was dropped); with no workers and all
\* emits finished the queue retains min(N, capacity) events and N - capacity
\* are dropped when N exceeds the capacity.
C1_QueueBounded ==
  /\ g_event_queue => Len(queue_) <= config_.async_queue_size
  /\ \A p \in Producers : ppc[p] = "drop" =>
        /\ pev[p].id \notin pushed
        /\ \A i \in 1..Len(queue_) : queue_[i] # pev[p]
  /\ QueueAlive =>
        stats_.events_total =
          Cardinality(pushed) + stats_.events_dropped + Cardinality(InEmit)
  /\ (mpc = "running" /\ config_.worker_threads = 0 /\ Idle) =>
        /\ Len(queue_) = Min(stats_.events_total, config_.async_queue_size)
        /\ stats_.events_dropped = stats_.events_total - Len(queue_)

\* C1 witness: no workers, a finished burst longer than the capacity.
C1_Witness ==
  /\ mpc = "running" /\ config_.worker_threads = 0 /\ Idle
  /\ stats_.events_total > config_.async_queue_size
  /\ Len(queue_) = config_.async_queue_size
  /\ stats_.events_dropped = stats_.events_total - config_.async_queue_size
  /\ stats_.events_dropped >= 1

\* C2: once shutdown() has returned and no emit is in flight, events_total is
\* events_dropped plus the number of events run through process_event.
C2_Accounting ==
  (mpc = "down" /\ Idle) =>
     stats_.events_total = stats_.events_dropped + Cardinality(processed)

\* C3: with at least one worker, every event enqueued before shutdown() took
\* effect has completed process_event when shutdown() has returned, and pop
\* returns "no more" only when the shutdown flag is set and the queue is empty.
C3_DrainState ==
  (mpc = "down" /\ config_.worker_threads >= 1) => pushedAtShutdown \subseteq processed

C3_PopStep ==
  \A w \in Workers :
     (wpc[w] \in {"pop", "drain"} /\ wpc'[w] \in {"loop", "exit"}) =>
        (shutdown_ /\ queue_ = <<>>)

C3_Drain == [] C3_DrainState /\ [][C3_PopStep]_vars

\* C3 witness: shutdown() was called while two enqueued events had not been
\* processed, and has returned with both of them processed.
C3_Witness ==
  /\ mpc = "down" /\ config_.worker_threads >= 1
  /\ Cardinality(pendingAtShutdown) >= 2
  /\ pendingAtShutdown \subseteq processed

\* Events of one producer appear in s in the order they were emitted.
ProducerOrdered(s) ==
  \A i, j \in 1..Len(s) : (i < j /\ s[i].src = s[j].src) => s[i].id < s[j].id

IsFirstEventCb(entry) == entry.list = "event" /\ entry.index = 1
Delivered == [k \in 1..Len(SelectSeq(cbLog, IsFirstEventCb)) |->
                SelectSeq(cbLog, IsFirstEventCb)[k].ev]

\* C4: events of one producer are dequeued, appended to the history and
\* delivered to the event callbacks in the order they were emitted.
C4_ProducerFifo ==
  /\ ProducerOrdered(popped)
  /\ ProducerOrdered(event_history_)
  /\ ProducerOrdered(Delivered)

\* C5: no producer waits in emit for a lock that a worker holds while it runs
\* user callbacks.
C5_EmitNeverWaits ==
  \A p \in Producers :
     ~ /\ ppc[p] \in {"stats", "drop"}
       /\ stats_mutex_ # 0
       /\ wpc[stats_mutex_] = "anomaly_cb"

Invoked(e, l, i) ==
  \E k \in 1..Len(cbLog) : cbLog[k].ev = e /\ cbLog[k].list = l /\ cbLog[k].index = i

\* C6: a callback that throws takes nothing down: the worker survives, and for
\* the event it was handling every later callback of the same list is invoked
\* before the worker leaves that list.
C6_CallbackIsolation ==
  /\ ~crashed
  /\ \A w \in Workers : wpc[w] # "dead"
  /\ \A k \in 1..Len(cbLog) :
       (cbLog[k].outcome = "throws" /\
        \A w \in Workers : wev[w] # cbLog[k].ev \/ wpc[w] \notin {"anomaly_cb", "event_cb"}) =>
          \A i \in (cbLog[k].index + 1)..(IF cbLog[k].list = "event"
                                           THEN event_callbacks_
                                           ELSE anomaly_callbacks_) :
             Invoked(cbLog[k].ev, cbLog[k].list, i)

\* ---------------------------------------------------- IncidentManager claims

Terminal(incident) == incident.status = "RESOLVED" \/ incident.status = "CLOSED"

\* lastEval says the call went past the threshold test
Proceeded == lastEval.op = "evaluate" /\ lastEval.result # "none"

\* A stored incident that the evaluation just made would repeat: same title and
\* severity, not older than the deduplication window, not terminal
Repeats(existing, title, severity) ==
  /\ existing.title = title /\ existing.severity = severity
  /\ existing.created_at >= now - deduplication_window
  /\ ~Terminal(existing)

C7_Step ==
  ( /\ lastEval'.op = "evaluate"
    /\ next_incident_id_' = next_incident_id_ + 1
    /\ \E id \in DOMAIN incidents_ :
          Repeats(incidents_[id], lastEval'.title, lastEval'.severity) )
  => /\ lastEval'.result = "duplicate"
     /\ incidents_' = incidents_
     /\ im_stats_'.total_created = im_stats_.total_created
     /\ im_stats_'.deduplicated = im_stats_.deduplicated + 1
     /\ stats_'.incidents_created = stats_.incidents_created

\* C7: an evaluate_event call that would create an incident with the title and
\* severity of a stored, non-terminal incident created within the deduplication
\* window stores nothing: the store and total_created stay, deduplicated grows
\* by one and the Logger's incidents_created stays (1 after two such calls).
C7_Deduplication == [][C7_Step]_vars

\* Two events with different ids and the same title and severity, evaluated
\* within the window: one incident, one duplicate.
C7_Witness ==
  /\ lastEval.op = "evaluate" /\ lastEval.result = "duplicate"
  /\ DOMAIN incidents_ = {1}
  /\ Repeats(incidents_[1], lastEval.title, lastEval.severity)
  /\ lastEval.event \notin Range(incidents_[1].event_ids)
  /\ im_stats_.total_created = 1 /\ im_stats_.deduplicated = 1
  /\ stats_.incidents_created = 1

\* The creation condition as the specification words it
CreationCondition(score, patterns, correlations) ==
  \/ score >= im_config_.anomaly_threshold
  \/ patterns >= im_config_.pattern_match_threshold
  \/ correlations >= im_config_.correlated_events_threshold

C8_Iff ==
  lastEval.op = "evaluate" =>
    (CreationCondition(lastEval.score, lastEval.patterns, lastEval.correlations)
       <=> lastEval.result \in {"created", "duplicate"})

C8_Frame ==
  (lastEval'.op = "evaluate" /\ lastEval # lastEval' /\ lastEval'.result = "none")
  => UNCHANGED <<incidents_, im_stats_, next_incident_id_>>

\* C8: evaluate_event goes on to create an incident (stored, or suppressed as a
\* duplicate) iff one of the three thresholds is met; otherwise it returns no
\* incident and leaves the store and every counter of the manager unchanged.
C8_CreationCondition == [] C8_Iff /\ [][C8_Frame]_vars

\* A score just under the threshold, no pattern, two correlations, evaluated by
\* a manager that holds an incident: nothing returned, nothing changed.
C8_Witness ==
  /\ lastEval.op = "evaluate" /\ lastEval.result = "none"
  /\ lastEval.score = 74 /\ lastEval.patterns = 0 /\ lastEval.correlations = 2
  /\ im_config_ = DefaultIMConfig
  /\ incidents_ = OneManual /\ im_stats_.total_created = 1

\* The severity mapping as the specification words it
MappedSeverity(score, patterns, correlations) ==
  IF score >= 95 THEN "CRITICAL"
  ELSE IF score >= 85 \/ patterns >= 2 THEN "HIGH"
  ELSE IF score >= 75 \/ correlations >= 5 THEN "MEDIUM"
  ELSE "LOW"

Band(score) ==
  IF score < 75 THEN "LOW" ELSE IF score < 85 THEN "MEDIUM"
  ELSE IF score < 95 THEN "HIGH" ELSE "CRITICAL"

Rank(severity) ==
  CASE severity = "LOW" -> 1 [] severity = "MEDIUM" -> 2
    [] severity = "HIGH" -> 3 [] severity = "CRITICAL" -> 4

\* C9: the severity of the incident evaluate_event builds is the first rule
\* that applies (CRITICAL from 0.95; HIGH from 0.85 or two patterns; MEDIUM from
\* 0.75 or five correlations; LOW otherwise); with no pattern and fewer than
\* five correlations it is the score's band, and with the counts fixed it
\* never decreases when the score increases.
C9_SeverityMapping ==
  Proceeded =>
    /\ lastEval.severity =
          MappedSeverity(lastEval.score, lastEval.patterns, lastEval.correlations)
    /\ (lastEval.patterns = 0 /\ lastEval.correlations < 5)
          => lastEval.severity = Band(lastEval.score)
    /\ \A higher \in GridScores :
          higher >= lastEval.score =>
            Rank(calculate_severity(higher, lastEval.patterns, lastEval.correlations))
              >= Rank(lastEval.severity)

\* Two patterns and five correlations under a score of 0.94: HIGH, by the
\* rule that comes first.
C9_Witness ==
  /\ Proceeded /\ lastEval.result = "created"
  /\ lastEval.score = 94 /\ lastEval.patterns = 2 /\ lastEval.correlations = 5
  /\ lastEval.severity = "HIGH"
  /\ \E id \in DOMAIN incidents_ : incidents_[id].severity = "HIGH"

\* C10: every stored incident has resolved_at set iff its status is RESOLVED,
\* and a resolved_at that is set is not before created_at.
C10_ResolvedAt ==
  \A id \in DOMAIN incidents_ :
    /\ (incidents_[id].resolved_at # NoTime) <=> (incidents_[id].status = "RESOLVED")
    /\ (incidents_[id].resolved_at # NoTime)
          => incidents_[id].resolved_at >= incidents_[id].created_at

\* Created more than resolution_timeout ago
Older(incident) == incident.created_at < now - resolution_timeout

C11_Step ==
  auto_resolve_stale_incidents =>
    \A id \in DOMAIN incidents_ :
      IF Older(incidents_[id]) /\ ~Terminal(incidents_[id])
        THEN /\ incidents_'[id].status = "RESOLVED"
             /\ incidents_'[id].root_cause = "Auto-resolved: no further activity"
        ELSE incidents_'[id] = incidents_[id]

\* C11: a call of auto_resolve_stale_incidents, with auto-resolution enabled,
\* leaves every incident older than resolution_timeout whose status is neither
\* RESOLVED nor CLOSED in status RESOLVED with the auto-resolution root cause,
\* and leaves every other incident as it was.
C11_AutoResolution == [][C11_Step]_vars

\* The integration calls made for an incident, in the order they were made
CallsFor(incident_id) ==
  SelectSeq(intLog, LAMBDA entry : entry.incident = incident_id)

\* C12: whatever way an integration's create_incident fails, the failure does
\* not leave evaluate_event / create_incident: the call returns, every
\* registered integration was invoked for the incident in registration order,
\* and the incident is stored and counted.
C12_IntegrationIsolation ==
  /\ ipc # "escaped"
  /\ ipc = "returned" =>
        /\ icur \in DOMAIN incidents_
        /\ im_stats_.total_created = Cardinality(DOMAIN incidents_)
        /\ Len(CallsFor(icur)) = integrations_
        /\ \A k \in 1..integrations_ : CallsFor(icur)[k].index = k

\* C13: no thread is inside an integration's network request while it holds
\* the incident manager's mutex.
C13_NoLockAcrossIO == ~(ipc = "network" /\ im_mutex_ # 0)

\* ------------------------------------------------------ pipeline claims

\* The k-th event of the cascade as the producer builds it
CascadeEvent(k) ==
  [id |-> k, src |-> 1, type |-> cascading_failure[k], incident_id |-> NoIncidentId]

CascadeIds == 1..Len(cascading_failure)

\* The events a single worker finds a pattern for: it processes them in the
\* order of emission, each against the history of the ones before it
SerialMatches ==
  {k \in CascadeIds :
     match_patterns(CascadeEvent(k), [i \in 1..(k - 1) |-> CascadeEvent(i)]) # <<>>}

CascadeDone == pushed = CascadeIds /\ processed = CascadeIds

\* C14: when the three events of one producer, none dropped, are all
\* processed, patterns_matched, anomalies_detected and incidents_created have
\* the values a single worker produces, whatever the schedule of the workers.
C14_ScheduleIndependence ==
  CascadeDone =>
    /\ stats_.patterns_matched = Cardinality(SerialMatches)
    /\ stats_.incidents_created = Cardinality(SerialMatches)
    /\ stats_.anomalies_detected = 0

\* The single worker's values: one pattern match, one incident
C14_Witness ==
  /\ CascadeDone /\ config_.worker_threads = 1
  /\ Cardinality(SerialMatches) = 1
  /\ stats_.patterns_matched = 1 /\ stats_.incidents_created = 1

CascadeIncidents ==
  {id \in DOMAIN incidents_ :
     incidents_[id].title = <<"Pattern detected: ", "cascading_failure">>}

\* C15: with the default pool of two workers, once database.slow, api.timeout
\* and user.error of one producer are processed, patterns_matched is at least 1
\* and exactly one incident titled "Pattern detected: cascading_failure" exists.
C15_CascadeDetected ==
  (CascadeDone /\ config_.worker_threads = 2) =>
    /\ stats_.patterns_matched >= 1
    /\ Cardinality(CascadeIncidents) = 1

\* The event an incident was created for is the first of its event_ids
CreatedFor(event) ==
  {id \in DOMAIN incidents_ : Head(incidents_[id].event_ids) = event.id}

\* C17: an event in the history carries an incident_id exactly when
\* evaluate_event created an incident for it, and then that incident's id.
C17_IncidentLink ==
  \A i \in 1..Len(event_history_) :
    LET event == event_history_[i] IN
      IF CreatedFor(event) = {}
        THEN event.incident_id = NoIncidentId
        ELSE /\ event.incident_id # NoIncidentId
             /\ event.incident_id \in CreatedFor(event)

\* ------------------------------------------------------ producer-side claims

\* The events push accepted, in the order the pipeline received them
Handed == popped \o queue_

\* C16: any two events handed to the pipeline by two emit() calls carry
\* different event ids, every id handed over was generated before, and one
\* builder never delivers two events with the same id.
C16_EventIdUnique ==
  /\ \A i, j \in 1..Len(Handed) : i # j => Handed[i].id # Handed[j].id
  /\ \A i \in 1..Len(Handed) : Handed[i].id < next_event_id

\* The event an emit call made in this step carries: the one just constructed,
\* or the one a kept builder still held
Constructed ==
  [severity |-> SeverityOf(next_event_id), anomaly_score |-> ScoreOf(next_event_id)]
EmitCall(p) ==
  /\ ppc[p] = "idle"
  /\ \/ workload'.emits[p] < workload.emits[p]
     \/ event_[p] # NoEvent /\ event_'[p] = NoEvent
EmittedEvent(p) ==
  IF next_event_id' # next_event_id THEN Constructed
  ELSE [severity |-> event_[p].severity, anomaly_score |-> event_[p].anomaly_score]

\* C19: with sample_anomalies_always set, an emit call on an initialized logger
\* with an event of severity ERROR or above, or of anomaly score 0.7 or above,
\* goes on to count the event and offer it to the queue whatever sampling_rate
\* is; an emit call that sampling discards leaves events_total, events_dropped
\* and the queue as they were.
C19_Step ==
  \A p \in Producers :
    (EmitCall(p) /\ initialized_) =>
      /\ (/\ config_.sample_anomalies_always
          /\ \/ EmittedEvent(p).severity >= 4
             \/ EmittedEvent(p).anomaly_score >= 70)
           => ppc'[p] = "stats"
      /\ ppc'[p] = "idle" => UNCHANGED <<stats_, queue_, pushed>>
C19_Sampling == [][C19_Step]_vars

\* With sampling_rate 0 the ERROR event and the anomalous event were handed to
\* the pipeline and counted, the third event was discarded.
C19_Witness ==
  /\ mpc = "running" /\ config_.sampling_rate = 0 /\ config_.sample_anomalies_always
  /\ \E i \in 1..Len(Handed) : Handed[i].severity >= 4
  /\ \E i \in 1..Len(Handed) : Handed[i].anomaly_score >= 70
  /\ next_event_id = 4 /\ \A p \in Producers : ppc[p] = "idle"
  /\ stats_.events_total = 2 /\ stats_.events_dropped = 0

\* ------------------------------------------------------ anomaly-stage claims

\* Invocations of anomaly callback c for event id
AnomalyCalls(id, c) ==
  {k \in 1..Len(cbLog) : /\ cbLog[k].list = "anomaly"
                         /\ cbLog[k].ev.id = id
                         /\ cbLog[k].index = c}

\* C18: for every processed event the anomaly stage scored, each registered
\* anomaly callback was invoked exactly once if the score is 0.7 or more and
\* not at all if it is less, and once every worker is between events
\* anomalies_detected is the number of events scored 0.7 or more, whatever
\* incident_anomaly_threshold is configured.
C18_AnomalyTrigger ==
  /\ \A i \in 1..Len(event_history_) :
       LET event == event_history_[i] IN
         event.id \in processed =>
           \A c \in 1..anomaly_callbacks_ :
             Cardinality(AnomalyCalls(event.id, c)) =
               IF event.anomaly_score >= 70 THEN 1 ELSE 0
  /\ (\A w \in Workers : wev[w] = NoEvent) =>
       stats_.anomalies_detected =
         Cardinality({i \in 1..Len(event_history_) :
                        event_history_[i].anomaly_score >= 70})

\* An event scored 0.70 and one scored 0.69 were processed with callbacks
\* registered and incident_anomaly_threshold at 0.8.
C18_Witness ==
  /\ im_config_.anomaly_threshold = 80 /\ anomaly_callbacks_ >= 1
  /\ \E i, j \in 1..Len(event_history_) :
       /\ event_history_[i].anomaly_score = 70 /\ event_history_[i].id \in processed
       /\ event_history_[j].anomaly_score = 69 /\ event_history_[j].id \in processed
  /\ stats_.anomalies_detected = 1

\* ------------------------------------------------------------ history claims

\* The last n entries of a sequence
LastN(h, n) == IF Len(h) <= n THEN h ELSE SubSeq(h, Len(h) - n + 1, Len(h))

\* A worker appends the event it is processing in this step
Appends(w) == wpc[w] = "history" /\ wpc'[w] = "lock_ecb"

C20_Step ==
  /\ \A w \in Workers :
       Appends(w) => event_history_' = LastN(Append(event_history_, wev[w]), 1000)
  /\ event_history_' # event_history_ => \E w \in Workers : Appends(w)

\* C20: the history never holds more than 1000 events, and every append leaves
\* in it the 1000 most recently appended events in the order they were
\* appended (the oldest entry is the one evicted), whichever worker appends.
C20_HistoryBound ==
  /\ [](Len(event_history_) <= 1000)
  /\ [][C20_Step]_vars

\* The history is full and its two oldest entries were evicted.
C20_Witness ==
  /\ Len(event_history_) = 1000
  /\ event_history_[1].id = 3
  /\ event_history_[1000].id > 1000

\* ---------------------------------------------------------- lifecycle claims

\* A worker finishes process_event in this step
Finishes(w) == wev[w] # NoEvent /\ wev'[w] = NoEvent

C21_Step ==
  /\ mpc' = "down" =>
        /\ \A w \in Workers : wpc'[w] = "none"
        /\ ~g_event_queue'
        /\ ~log_file_'.is_open
  /\ \A w \in Workers :
       (Finishes(w) /\ config_.log_file_path # NoPath) =>
          files'[config_.log_file_path] =
            Append(files[config_.log_file_path], wev[w].id)

\* C21: once shutdown() has returned no worker runs, the queue is released and
\* the log file is closed, and every event processed while a log_file_path is
\* configured, after a second init too, is written to that file.
C21_ShutdownPostState == [][C21_Step]_vars

C22_Step ==
  /\ workload'.inits < workload.inits =>
       UNCHANGED <<config_, initialized_, shutdown_requested_, g_event_queue, queue_,
                   shutdown_, stats_, mutex_, stats_mutex_, event_callbacks_,
                   anomaly_callbacks_, event_history_, next_event_id, crashed, mpc,
                   wpc, wev, fileVars, corrVars, detVars, patVars, history_ref, components_>>
  /\ workload'.shutdowns < workload.shutdowns =>
       UNCHANGED <<config_, initialized_, shutdown_requested_, g_event_queue, queue_,
                   shutdown_, stats_, mutex_, stats_mutex_, event_callbacks_,
                   anomaly_callbacks_, event_history_, next_event_id, crashed, mpc,
                   wpc, wev, fileVars, corrVars, detVars, patVars, history_ref, components_>>

\* C22: init while the logger is initialized leaves the configuration, the
\* queue, the workers and everything else of the logger as they were, and so
\* does shutdown while it is not initialized.
C22_RedundantCalls == [][C22_Step]_vars

\* Both redundant calls were made, the second shutdown after a run that
\* accepted events.
C22_Witness ==
  /\ workload.inits = 0 /\ workload.shutdowns = 0
  /\ mpc = "down" /\ pushed # {}

C23_Step ==
  \A p \in Producers :
    (EmitCall(p) /\ ~initialized_) =>
      /\ ppc'[p] = "idle"
      /\ UNCHANGED <<stats_, queue_, pushed, g_event_queue>>
      /\ ~crashed'

\* C23: an emit call made while the logger is not initialized returns without
\* enqueuing anything, without changing a counter and without failing.
C23_UninitialisedEmit == [][C23_Step]_vars

\* The second event was accepted by an initialized logger; the first and the
\* third were emitted before init and after shutdown, and left no trace.
C23_Witness ==
  /\ pushed = {2} /\ stats_.events_total = 1 /\ next_event_id = 4
  /\ mpc = "down" /\ \A p \in Producers : ppc[p] = "idle"

\* ------------------------------------------------- correlation-engine claims

\* The number of positions of q that hold x
Count(q, x) == Cardinality({i \in 1..Len(q) : q[i] = x})

\* C24: the correlation stage yields a correlation of type trace_id with
\* confidence 1.0 for an event if and only if the event has a trace id and some
\* other event processed before it carried the same trace id.
C24_TraceCorrelation ==
  lastCorr.event # NoEvent =>
    LET event == lastCorr.event
        HasTrace == \E i \in 1..Len(lastCorr.found) :
                      /\ lastCorr.found[i].correlation_type = "trace_id"
                      /\ lastCorr.found[i].confidence = 100
        Prior == /\ event.trace_id # ""
                 /\ \E id \in DOMAIN correlator_.events_ \ {event.id} :
                      correlator_.events_[id].trace_id = event.trace_id
    IN HasTrace <=> Prior

\* The correlation records kept for the event with this id, by strategy
RecordsFor(id, strategy) ==
  {i \in 1..Len(correlator_.correlations_) :
     /\ correlator_.correlations_[i].correlation_type = strategy
     /\ correlator_.correlations_[i].event_ids[
          Len(correlator_.correlations_[i].event_ids)] = id}

\* C25: the id of every processed event is once in the list of each index key
\* the event belongs to, and at most one correlation record per strategy was
\* kept for it.
C25_CorrelatedOnce ==
  \A id \in DOMAIN correlator_.events_ :
    LET event == correlator_.events_[id] IN
      /\ event.trace_id # "" =>
            Count(correlator_.trace_id_index_[event.trace_id], id) = 1
      /\ \A v \in event.entities : Count(correlator_.entity_index_[v], id) = 1
      /\ event.service_name # "" =>
            Count(correlator_.service_index_[event.service_name], id) = 1
      /\ \A strategy \in {"trace_id", "entity", "service", "temporal"} :
            Cardinality(RecordsFor(id, strategy)) <= 1

SetMin(S) == CHOOSE x \in S : \A y \in S : x <= y

\* C26: for every correlation the correlator produced, find_root_cause returns
\* the smallest event id of the correlation as the root, with 0.7 of the
\* correlation's confidence; for an empty correlation it returns nothing.
C26_RootIsEarliest ==
  /\ find_root_cause([correlation_type |-> "trace_id", confidence |-> 100,
                       event_ids |-> <<>>]) = <<>>
  /\ \A i \in 1..Len(correlator_.correlations_) :
       LET correlation == correlator_.correlations_[i]
           root == find_root_cause(correlation)
       IN /\ root # <<>>
          /\ root[1].root_event_id = SetMin(Range(correlation.event_ids))
          /\ root[1].confidence * 10 = correlation.confidence * 7

\* The events of the context that learn pairs with the event for this pair
SightingsOf(pair, event, context) ==
  {i \in 1..Len(context) :
     /\ context[i].timestamp >= event.timestamp - 60000
     /\ <<context[i].type, event.type>> = pair}

C27_Step ==
  lastCorr' # lastCorr =>
    LET event == lastCorr'.event IN
      \A pair \in DOMAIN relationships_' :
        LET sightings == SightingsOf(pair, event, event_history_)
            n == Cardinality(sightings)
            after == relationships_'[pair]
        IN IF n = 0
             THEN pair \in DOMAIN relationships_ /\ after = relationships_[pair]
           ELSE IF pair \notin DOMAIN relationships_
             THEN /\ after.type = "PRECEDES"
                  /\ after.observed_count = n
                  /\ after.strength = Min(100, 10 + 5 * (n - 1))
                  /\ n = 1 => \A i \in sightings :
                        after.typical_delay =
                          event.timestamp - event_history_[i].timestamp
           ELSE /\ after.observed_count = relationships_[pair].observed_count + n
                /\ after.strength = Min(100, relationships_[pair].strength + 5 * n)
                /\ after.strength >= relationships_[pair].strength

\* C27: the first sighting of an unknown (cause, effect) pair leaves a PRECEDES
\* relationship of strength 0.1 with observed_count 1 and the time difference
\* as delay; every later sighting adds 1 to observed_count and 0.05 to the
\* strength, capped at 1, so that the strength never decreases.
C27_CausalityLearning == [][C27_Step]_vars

\* ---------------------------------------------------------- detector steps
MaxTrain == 31
MaxOdd == 1

\* The metric values the application reports: two finite levels and the
\* non-finite doubles; when scoring also the level 5 plus 1e-6 and plus 2e-6
TrainValues == {Fin(5, 1), Fin(7, 1), NaN, PosInf}
ScoreValues == {Fin(5, 1), Fin(5000001, 1000000), Fin(5000002, 1000000), Fin(7, 1), NaN}
MetricsOf(values) ==
  {NoMetrics} \cup {[name \in {n} |-> v] : n \in MetricNames, v \in values}

\* The values the detectors were trained with for the metric, oldest first
\* (the window of the moving-average detector, which MaxTrain does not fill)
Trained(name) ==
  IF name \in DOMAIN metric_history_ THEN metric_history_[name].values ELSE <<>>

\* How many of the values differ from the first
Odd(values) == Cardinality({i \in 1..Len(values) : values[i] # values[1]})

\* EnsembleDetector::train: the Z-score and the moving-average detector learn
\* the event's metrics (the rate detector reads no metric)
EnsembleTrain(metrics) ==
  /\ \A name \in DOMAIN metrics :
       /\ Len(Trained(name)) < MaxTrain
       /\ Odd(Append(Trained(name), metrics[name])) <= MaxOdd
  /\ metric_stats_' = ZScoreDetector_train(metric_stats_, metrics)
  /\ metric_history_' = MovingAverageDetector_train(metric_history_, metrics)
  /\ lastScore' = NoScore
  /\ UNCHANGED <<config_, initialized_, shutdown_requested_, g_event_queue, queue_,
                 shutdown_, stats_, mutex_, stats_mutex_, event_callbacks_,
                 anomaly_callbacks_, event_history_, next_event_id, workload, crashed,
                 mpc, ppc, pev, wpc, wev, wret, wcb, pushed, pushedAtShutdown,
                 pendingAtShutdown, popped, processed, cbLog, imVars, events_, event_,
                 fileVars, corrVars, patVars, history_ref, components_>>

\* ZScoreDetector::score called with an event carrying these metrics
ZScoreScore(metrics) ==
  /\ lastScore' = [metrics |-> metrics, called |-> TRUE,
                   score |-> ZScoreDetector_score(metric_stats_, metrics)]
  /\ UNCHANGED <<config_, initialized_, shutdown_requested_, g_event_queue, queue_,
                 shutdown_, stats_, mutex_, stats_mutex_, event_callbacks_,
                 anomaly_callbacks_, event_history_, next_event_id, workload, crashed,
                 mpc, ppc, pev, wpc, wev, wret, wcb, pushed, pushedAtShutdown,
                 pendingAtShutdown, popped, processed, cbLog, imVars, events_, event_,
                 fileVars, corrVars, metric_stats_, metric_history_, patVars, history_ref, components_>>

DetNext ==
  \/ \E metrics \in MetricsOf(TrainValues) : EnsembleTrain(metrics)
  \/ \E metrics \in MetricsOf(ScoreValues) : ZScoreScore(metrics)

SpecDet == CorrInit /\ [][DetNext]_vars

\* ------------------------------------------------------------ detector claims

\* The detectors were trained for the metric at least once, with c every time
ConstantSeries(name, c) ==
  /\ Trained(name) # <<>>
  /\ \A i \in 1..Len(Trained(name)) : Trained(name)[i] = c

\* What the constant-series rule asks of the last score, for a metric trained
\* at least least times with the finite value c only
ConstantRule(least) ==
  \A name \in DOMAIN lastScore.metrics, c \in TrainValues :
    (isfinite(c) /\ ConstantSeries(name, c) /\ Len(Trained(name)) >= least) =>
      LET value == lastScore.metrics[name] IN
        /\ value = c => lastScore.score = ZeroScore
        /\ DLess(Epsilon, DSub(value, c)) => lastScore.score = OneScore

C29_InvalidMetricSkipped ==
  /\ \A name \in DOMAIN metric_stats_ :
       isfinite(metric_stats_[name].mean) /\ isfinite(metric_stats_[name].m2)
  /\ \A name \in DOMAIN metric_history_ :
       /\ isfinite(metric_history_[name].sum)
       /\ \A i \in 1..Len(metric_history_[name].values) :
            isfinite(metric_history_[name].values[i])

\* ------------------------------------------------------ sequential patterns
MaxSeqEvents == 4

\* PatternFactory::cascading_failure with the time limits of its steps, in
\* milliseconds
cascading_failure_steps ==
  << [event_type |-> "database.slow", max_time_since_prev |-> 10000],
     [event_type |-> "api.timeout", max_time_since_prev |-> 5000],
     [event_type |-> "user.error", max_time_since_prev |-> 3000] >>

matches_step(event, step) == event.type = step.event_type

\* The loop of SequentialPattern::match: i is the position of the context the
\* reverse iterator is at, current_step the number of steps still to be found,
\* current_time the timestamp of the event matched last.  The result is the
\* current_step the loop ends with.
RECURSIVE WalkBack(_, _, _, _, _)
WalkBack(steps_, context, i, current_step, current_time) ==
  IF i = 0 \/ current_step = 0 THEN current_step
  ELSE LET prev_step == steps_[current_step]
           time_diff == current_time - context[i].timestamp
       IN IF time_diff > prev_step.max_time_since_prev THEN current_step
          ELSE IF matches_step(context[i], prev_step)
            THEN WalkBack(steps_, context, i - 1, current_step - 1,
                          context[i].timestamp)
          ELSE WalkBack(steps_, context, i - 1, current_step, current_time)

\* SequentialPattern::match with the time limits, the score in hundredths
SequentialPattern_match_timed(steps_, event, context) ==
  IF steps_ = <<>> THEN 0
  ELSE IF ~matches_step(event, steps_[Len(steps_)]) THEN 0
  ELSE IF Len(steps_) = 1 THEN 100
  ELSE LET current_step == WalkBack(steps_, context, Len(context),
                                    Len(steps_) - 1, event.timestamp)
       IN IF current_step = 0 THEN 100
          ELSE ((Len(steps_) - current_step) * 50) \div Len(steps_)

\* The events of the cascade's types the application builds, with the time
\* of their construction in milliseconds
SeqTimes == {0, 4000, 7000, 8000}
SeqEvents ==
  {[NoEvent EXCEPT !.id = k, !.src = 1, !.type = ty, !.timestamp = ts] :
     k \in 1..MaxSeqEvents, ty \in Range(cascading_failure), ts \in SeqTimes}

\* The pattern stage of process_event for the next event, followed by the
\* history append: match_patterns calls SequentialPattern::match, which counts
\* a full match, and process_event counts the matches reported (score > 0.5).
\* The events are processed in the order of their construction.
PatternStage(event) ==
  /\ event.id = Len(event_history_) + 1
  /\ \A i \in 1..Len(event_history_) : event_history_[i].timestamp <= event.timestamp
  /\ LET score == SequentialPattern_match_timed(cascading_failure_steps, event,
                                                event_history_)
     IN /\ lastMatch' = [called |-> TRUE, event |-> event,
                         context |-> event_history_, score |-> score]
        /\ match_count_' = IF score = 100 THEN match_count_ + 1 ELSE match_count_
        /\ stats_' = [stats_ EXCEPT !.patterns_matched =
                        IF score > 50 THEN @ + 1 ELSE @]
  /\ event_history_' = HistoryAppend(event_history_, event)
  /\ UNCHANGED <<config_, initialized_, shutdown_requested_, g_event_queue, queue_,
                 shutdown_, mutex_, stats_mutex_, event_callbacks_, anomaly_callbacks_,
                 next_event_id, workload, crashed, mpc, ppc, pev, wpc, wev, wret, wcb,
                 pushed, pushedAtShutdown, pendingAtShutdown, popped, processed, cbLog,
                 imVars, events_, event_, fileVars, corrVars, detVars,
                 event_times_, entity_times_, lastMatches, history_ref, components_>>

SeqNext == \E event \in SeqEvents : PatternStage(event)

SpecSeq == CorrInit /\ [][SeqNext]_vars

\* There are events of the context before position upper that match the steps
\* 1..k in order, each at most the next step's max_time_since_prev before the
\* event matched to the next step, which happened at time t
RECURSIVE Chain(_, _, _, _, _)
Chain(steps_, context, k, upper, t) ==
  \E j \in 1..(upper - 1) :
    /\ matches_step(context[j], steps_[k])
    /\ t - context[j].timestamp <= steps_[k + 1].max_time_since_prev
    /\ k = 1 \/ Chain(steps_, context, k - 1, j, context[j].timestamp)

\* C30: SequentialPattern::match returns 1.0 if and only if the event matches
\* the last step and the history holds events matching the earlier steps in
\* order, the time from the event of step i to the event of step i+1 being at
\* most step i+1's max_time_since_prev; the first step's limit constrains
\* nothing.
C30_SequentialWindows ==
  lastMatch.called =>
    LET steps_ == cascading_failure_steps
        n == Len(steps_)
    IN (lastMatch.score = 100) <=>
         /\ matches_step(lastMatch.event, steps_[n])
         /\ Chain(steps_, lastMatch.context, n - 1, Len(lastMatch.context) + 1,
                  lastMatch.event.timestamp)

\* ------------------------------------------------------------ pattern engine
MaxAuthEvents == 6
MaxRetryEvents == 11

\* The names of an event's entities in the order std::map iterates them
EntityKeys == <<"target", "user">>

\* The loop `while (!times.empty() && times.front() < cutoff) pop_front()`
RECURSIVE DropOld(_, _)
DropOld(times, cutoff) ==
  IF times # <<>> /\ Head(times) < cutoff THEN DropOld(Tail(times), cutoff)
  ELSE times

\* The REPEATED case of FrequencyPattern::match from the i-th entity on: each
\* value's times are cleaned, and the first value with threshold_ times left
\* ends the loop with 1.0
RECURSIVE Repeated(_, _, _, _, _)
Repeated(pattern, by_entity, event, cutoff, i) ==
  IF i > Len(EntityKeys) THEN [score |-> 0, entity_times_ |-> by_entity]
  ELSE IF \E kv \in event.entities : kv[1] = EntityKeys[i]
    THEN LET value == (CHOOSE kv \in event.entities : kv[1] = EntityKeys[i])[2]
             times == DropOld(by_entity[value], cutoff)
             cleaned == [by_entity EXCEPT ![value] = times]
         IN IF Len(times) >= pattern.threshold
              THEN [score |-> 100, entity_times_ |-> cleaned]
            ELSE Repeated(pattern, cleaned, event, cutoff, i + 1)
  ELSE Repeated(pattern, by_entity, event, cutoff, i + 1)

\* FrequencyPattern::match: the score in hundredths and the members as the
\* cleaning leaves them
FrequencyPattern_match(pattern, times, by_entity, event) ==
  IF event.type # pattern.event_type
    THEN [score |-> 0, event_times_ |-> times, entity_times_ |-> by_entity]
  ELSE LET cutoff == event.timestamp - pattern.window
           cleaned == DropOld(times, cutoff)
           count == Len(cleaned)
       IN IF pattern.type = "BURST"
            THEN [score |-> IF count >= pattern.threshold
                              THEN Min(100, 70 + (30 * (count - pattern.threshold + 1))
                                                   \div pattern.threshold)
                            ELSE 0,
                  event_times_ |-> cleaned, entity_times_ |-> by_entity]
          ELSE [event_times_ |-> cleaned] @@
               Repeated(pattern, by_entity, event, cutoff, 1)

\* The loop of FrequencyPattern::train over the entities from the i-th on
RECURSIVE TrackEntities(_, _, _)
TrackEntities(by_entity, event, i) ==
  IF i > Len(EntityKeys) THEN by_entity
  ELSE IF \E kv \in event.entities : kv[1] = EntityKeys[i]
    THEN LET value == (CHOOSE kv \in event.entities : kv[1] = EntityKeys[i])[2]
         IN TrackEntities([by_entity EXCEPT ![value] = Append(@, event.timestamp)],
                          event, i + 1)
  ELSE TrackEntities(by_entity, event, i + 1)

\* FrequencyPattern::train
FrequencyPattern_train(pattern, times, by_entity, event) ==
  IF event.type # pattern.event_type
    THEN [event_times_ |-> times, entity_times_ |-> by_entity]
  ELSE [event_times_ |-> Append(times, event.timestamp),
        entity_times_ |-> TrackEntities(by_entity, event, 1)]

\* std::regex_search of the message with the regex of
\* PatternFactory::exception_pattern, for the messages the application writes
Messages == {"", "Error: retry failed"}
regex_search(message) == message = "Error: retry failed"

RegexPattern_match(event) == IF regex_search(event.message) THEN 100 ELSE 0

\* The patterns in the order register_builtin_patterns registers them
patterns_ ==
  <<"cascading_failure", "auth_failure_burst", "retry_storm", "exception_detected">>

\* pattern->match(event, context) for each registered pattern
PatternScores(event, context) ==
  [name \in Range(patterns_) |->
     IF name = "cascading_failure"
       THEN SequentialPattern_match_timed(cascading_failure_steps, event, context)
     ELSE IF name = "exception_detected" THEN RegexPattern_match(event)
     ELSE LET pattern == CHOOSE q \in FrequencyPatterns : q.name = name
          IN FrequencyPattern_match(pattern, event_times_[name],
                                    entity_times_[name], event).score]

\* The matches match_patterns collects, in registration order, from the i-th
\* pattern on
RECURSIVE Collect(_, _)
Collect(scores, i) ==
  IF i > Len(patterns_) THEN <<>>
  ELSE IF scores[patterns_[i]] > 50
    THEN <<[name |-> patterns_[i], score |-> scores[patterns_[i]]]>>
           \o Collect(scores, i + 1)
  ELSE Collect(scores, i + 1)

SortedByScoreMutant(matches, sorted) ==
  /\ Len(sorted) = Len(matches)
  /\ Range(sorted) = Range(matches)

\* What std::sort with the comparator a.score > b.score may leave: the same
\* matches, the scores not increasing (equal scores in any order)
SortedByScore(matches, sorted) ==
  /\ Len(sorted) = Len(matches)
  /\ Range(sorted) = Range(matches)
  /\ \A i, j \in 1..Len(sorted) : i < j => sorted[i].score >= sorted[j].score

\* The events of the bursts the application emits: failed logins carrying
\* the user (and possibly the same or no value under a second name), retries
\* with or without an error message, and the events of the cascade
PatEntities ==
  {{}, {<<"user", "u1">>}, {<<"user", "u2">>}, {<<"target", "u1">>, <<"user", "u1">>}}
PatEvent(k, ty, en, msg, ts) ==
  [id |-> k, src |-> 1, type |-> ty, severity |-> INFO, anomaly_score |-> 0,
   incident_id |-> NoIncidentId, trace_id |-> "", entities |-> en,
   service_name |-> "", timestamp |-> ts, message |-> msg]
PatTimes == {0, 70000}
PatEvents ==
  {PatEvent(k, "auth.failed", en, "", ts) :
     k \in 1..MaxAuthEvents, en \in PatEntities, ts \in PatTimes}
  \cup {PatEvent(k, "api.retry", {}, msg, ts) :
     k \in 1..MaxRetryEvents, msg \in Messages, ts \in PatTimes}
  \cup {PatEvent(k, ty, {}, "", ts) :
     k \in 1..Len(cascading_failure), ty \in Range(cascading_failure), ts \in PatTimes}

\* The kind of burst an event type belongs to
BurstOf(type) ==
  IF type \in Range(cascading_failure) THEN "cascade" ELSE type

\* The pattern stage of process_event for the next event of a burst, followed
\* by the history append: match_patterns scores the event with every
\* registered pattern, keeps the scores above 0.5 and sorts them; process_event
\* counts them; train_all trains every pattern.  The events are processed in
\* the order of their construction.
PatternEngineStage(event) ==
  /\ event.id = Len(event_history_) + 1
  /\ \A i \in 1..Len(event_history_) :
       /\ event_history_[i].timestamp <= event.timestamp
       /\ BurstOf(event_history_[i].type) = BurstOf(event.type)
  /\ LET scores == PatternScores(event, event_history_)
         AfterMatch(q) == FrequencyPattern_match(q, event_times_[q.name],
                                              entity_times_[q.name], event)
         AfterTrain(q) == FrequencyPattern_train(q, AfterMatch(q).event_times_,
                                              AfterMatch(q).entity_times_, event)
     IN /\ \E sorted \in [1..Len(Collect(scores, 1)) -> Range(Collect(scores, 1))] :
             /\ SortedByScore(Collect(scores, 1), sorted)
             /\ lastMatches' = [called |-> TRUE, event |-> event,
                                context |-> event_history_, scores |-> scores,
                                matches |-> sorted]
        /\ stats_' = [stats_ EXCEPT !.patterns_matched = @ + Len(Collect(scores, 1))]
        /\ match_count_' = IF scores["cascading_failure"] = 100
                             THEN match_count_ + 1 ELSE match_count_
        /\ event_times_' = [f \in DOMAIN event_times_ |->
             AfterTrain(CHOOSE q \in FrequencyPatterns : q.name = f).event_times_]
        /\ entity_times_' = [f \in DOMAIN entity_times_ |->
             AfterTrain(CHOOSE q \in FrequencyPatterns : q.name = f).entity_times_]
  /\ event_history_' = HistoryAppend(event_history_, event)
  /\ UNCHANGED <<config_, initialized_, shutdown_requested_, g_event_queue, queue_,
                 shutdown_, mutex_, stats_mutex_, event_callbacks_, anomaly_callbacks_,
                 next_event_id, workload, crashed, mpc, ppc, pev, wpc, wev, wret, wcb,
                 pushed, pushedAtShutdown, pendingAtShutdown, popped, processed, cbLog,
                 imVars, events_, event_, fileVars, corrVars, detVars, lastMatch,
                 history_ref, components_>>

PatNext == \E event \in PatEvents : PatternEngineStage(event)

SpecPat == CorrInit /\ [][PatNext]_vars

\* ----------------------------------------------------- pattern engine claims

C31_Step ==
  lastMatches' # lastMatches =>
    LET matches == lastMatches'.matches
        scores == lastMatches'.scores
    IN /\ \A name \in Range(patterns_) :
            Cardinality({i \in 1..Len(matches) : matches[i].name = name})
              = IF scores[name] > 50 THEN 1 ELSE 0
       /\ \A i \in 1..Len(matches) : matches[i].score = scores[matches[i].name]
       /\ \A i, j \in 1..Len(matches) :
            i < j => matches[i].score >= matches[j].score
       /\ scores["cascading_failure"] # 100 => scores["cascading_failure"] < 50
       /\ stats_'.patterns_matched =
            stats_.patterns_matched
              + Cardinality({name \in Range(patterns_) : scores[name] > 50})

\* C31: match_patterns returns exactly the registered patterns whose score for
\* the event is above 0.5, each with its score, the scores not increasing; a
\* partial sequential match scores below 0.5, is not reported and is not
\* counted in patterns_matched.
C31_Reporting == [][C31_Step]_vars

C31_Witness ==
  /\ lastMatches.called
  /\ lastMatches.matches = << [name |-> "exception_detected", score |-> 100],
                              [name |-> "retry_storm", score |-> 73] >>

\* The entity values an event carries
ValuesOf(event) == {kv[2] : kv \in event.entities}

\* C32: an event of the bound type carrying the entity value v matches the
\* repeated-entity pattern with score 1.0 if and only if at least threshold
\* earlier events of that type carrying v lie within the window before it.
C32_RepeatedEntity ==
  (lastMatches.called /\ lastMatches.event.type = auth_failure_pattern.event_type
     /\ lastMatches.event.entities # {}) =>
    LET event == lastMatches.event
        context == lastMatches.context
        Earlier(v) == {i \in 1..Len(context) :
                         /\ context[i].type = auth_failure_pattern.event_type
                         /\ v \in ValuesOf(context[i])
                         /\ context[i].timestamp >=
                              event.timestamp - auth_failure_pattern.window}
    IN (lastMatches.scores[auth_failure_pattern.name] = 100) <=>
         \E v \in ValuesOf(event) :
           Cardinality(Earlier(v)) >= auth_failure_pattern.threshold

\* ------------------------------------------------------- correlator cleanup
\* The clock readings and the max_age arguments of the cleanup calls, in
\* milliseconds
MaxCleanEvents == 2
CleanupClock == {70000, 140000}
MaxAges == {0, 70000}

\* The application calls EventCorrelator::cleanup(max_age) when the clock
\* shows current, which is not before the construction of any stored event
Cleanup(current, max_age) ==
  /\ \A id \in DOMAIN correlator_.events_ :
       correlator_.events_[id].timestamp <= current
  /\ LET kept == {id \in DOMAIN correlator_.events_ :
                    ~(correlator_.events_[id].timestamp < current - max_age)}
     IN \E order \in Orderings(kept) :
          correlator_' = EventCorrelator_cleanup(correlator_, current - max_age, order)
  /\ lastCorr' = [event |-> NoEvent, found |-> <<>>, cutoff |-> current - max_age]
  /\ UNCHANGED <<config_, initialized_, shutdown_requested_, g_event_queue, queue_,
                 shutdown_, stats_, mutex_, stats_mutex_, event_callbacks_,
                 anomaly_callbacks_, event_history_, next_event_id, workload, crashed,
                 mpc, ppc, pev, wpc, wev, wret, wcb, pushed, pushedAtShutdown,
                 pendingAtShutdown, popped, processed, cbLog, imVars, events_, event_,
                 fileVars, relationships_, detVars, patVars, history_ref, components_>>

\* The correlation stage for an event no worker has processed before; the
\* events differ in trace id, entity, service and time
CleanCorrelate(event) ==
  /\ event.type = "database.slow"
  /\ event.id <= MaxCleanEvents
  /\ \A i \in 1..Len(event_history_) : event_history_[i].id # event.id
  /\ CorrelationStage(event)

CleanNext ==
  \/ \E event \in CorrEvents : CleanCorrelate(event)
  \/ \E current \in CleanupClock, max_age \in MaxAges : Cleanup(current, max_age)

SpecClean == CorrInit /\ [][CleanNext]_vars

\* The ids the three indices list
IndexedIds(c) ==
  UNION ({Range(c.trace_id_index_[t]) : t \in TraceIds}
         \cup {Range(c.entity_index_[v]) : v \in EntityValues}
         \cup {Range(c.service_index_[n]) : n \in Services})

C33_Step ==
  /\ IndexedIds(correlator_') \subseteq DOMAIN correlator_'.events_
  /\ "cutoff" \in DOMAIN lastCorr' =>
       LET cutoff == lastCorr'.cutoff
           before == correlator_.events_
           after == correlator_'.events_
       IN /\ DOMAIN after = {id \in DOMAIN before : before[id].timestamp >= cutoff}
          /\ \A id \in DOMAIN after : after[id] = before[id]
          /\ \A t \in TraceIds :
               Range(correlator_'.trace_id_index_[t])
                 = {id \in DOMAIN after : after[id].trace_id = t}
          /\ \A v \in EntityValues :
               Range(correlator_'.entity_index_[v])
                 = {id \in DOMAIN after : v \in after[id].entities}
          /\ \A n \in Services :
               Range(correlator_'.service_index_[n])
                 = {id \in DOMAIN after : after[id].service_name = n}
          /\ \A i \in 1..Len(correlator_'.correlations_) :
               correlator_'.correlations_[i].last_event_time >= cutoff

\* C33: after every correlate and cleanup call each id the indices list is the
\* id of a stored event; after cleanup(max_age) the store holds exactly the
\* events stored before that are not older than max_age, the indices list
\* exactly those events, and no correlation kept has a last_event_time older
\* than max_age.
C33_StoreConsistency == [][C33_Step]_vars

C33_Witness ==
  /\ "cutoff" \in DOMAIN lastCorr
  /\ DOMAIN correlator_.events_ # {}
  /\ Len(event_history_) > Cardinality(DOMAIN correlator_.events_)
  /\ IndexedIds(correlator_) # {}
  /\ correlator_.correlations_ # <<>>

\* ---- Shutdown while the application keeps logging

\* The statistics counters are counted up to StatCap here; beyond it the slice
\* does not tell their values apart.
StatCap == 2

Capped(n) == IF n < StatCap THEN n + 1 ELSE StatCap

\* The events of this slice are not told apart
LoadEvent == [NoEvent EXCEPT !.id = 1, !.src = 1]

\* Logger::emit by an application thread that never stops logging: the
\* initialized_ test (read without a lock), events_total++, then push, which
\* does not look at shutdown_, and events_dropped++ when the queue is full
LoadEmit(p) ==
  /\ ppc[p] = "idle" /\ ~crashed
  /\ initialized_
  /\ stats_mutex_ = 0
  /\ IF ~g_event_queue
       THEN /\ stats_' = [stats_ EXCEPT !.events_total = Capped(@)]
            /\ UNCHANGED queue_
       ELSE IF PushAccepts(queue_, config_.async_queue_size)
         THEN /\ queue_' = Append(queue_, LoadEvent)
              /\ stats_' = [stats_ EXCEPT !.events_total = Capped(@)]
         ELSE /\ stats_' = [stats_ EXCEPT !.events_total = Capped(@),
                                          !.events_dropped = Capped(@)]
              /\ UNCHANGED queue_
  /\ UNCHANGED <<config_, initialized_, shutdown_requested_, g_event_queue,
                 shutdown_, mutex_, stats_mutex_, event_callbacks_, anomaly_callbacks_,
                 event_history_, next_event_id, workload, crashed, mpc, ppc, pev, wpc,
                 wev, wret, wcb, pushed, pushedAtShutdown, pendingAtShutdown, popped,
                 processed, cbLog, imVars, events_, event_, fileVars, corrVars, detVars,
                 patVars, history_ref, components_>>

\* g_event_queue->pop(event) in the main loop or in the drain loop
LoadPop(w) ==
  /\ wpc[w] \in {"pop", "drain"} /\ ~crashed
  /\ PopReady
  /\ IF PopNoMore
       THEN /\ wpc' = [wpc EXCEPT ![w] = IF wpc[w] = "pop" THEN "loop" ELSE "exit"]
            /\ UNCHANGED <<queue_, wev, wret>>
       ELSE /\ queue_' = Tail(queue_)
            /\ wev' = [wev EXCEPT ![w] = Head(queue_)]
            /\ wret' = [wret EXCEPT ![w] = IF wpc[w] = "pop" THEN "loop" ELSE "drain"]
            /\ wpc' = [wpc EXCEPT ![w] = "process"]
  /\ UNCHANGED <<config_, initialized_, shutdown_requested_, g_event_queue,
                 shutdown_, stats_, mutex_, stats_mutex_, event_callbacks_,
                 anomaly_callbacks_, event_history_, next_event_id, workload, crashed,
                 mpc, ppc, pev, wcb, pushed, pushedAtShutdown, pendingAtShutdown, popped,
                 processed, cbLog, imVars, events_, event_, fileVars, corrVars, detVars,
                 patVars, history_ref, components_>>

\* process_event(event) returns to the loop that popped the event; what it
\* does to the analysis state has no part in this slice
LoadProcess(w) ==
  /\ wpc[w] = "process" /\ ~crashed
  /\ wpc' = [wpc EXCEPT ![w] = wret[w]]
  /\ wev' = [wev EXCEPT ![w] = NoEvent]
  /\ UNCHANGED <<config_, initialized_, shutdown_requested_, g_event_queue, queue_,
                 shutdown_, stats_, mutex_, stats_mutex_, event_callbacks_,
                 anomaly_callbacks_, event_history_, next_event_id, workload, crashed,
                 mpc, ppc, pev, wret, wcb, pushed, pushedAtShutdown, pendingAtShutdown,
                 popped, processed, cbLog, imVars, events_, event_, fileVars, corrVars,
                 detVars, patVars, history_ref, components_>>

\* A running logger with one or two workers and an empty queue
LoadInit ==
  \E cfg \in Configs :
    /\ cfg.worker_threads >= 1
    /\ cfg.sampling_rate = 100
    /\ cfg.log_file_path = NoPath
    /\ RunningLogger(QuietWorkload, cfg, 0)

ShutdownSteps == ShutdownSignal \/ ShutdownJoin \/ ShutdownReset \/ ShutdownFinish

WorkerSteps(w) == WorkerLoop(w) \/ LoadPop(w) \/ LoadProcess(w)

LoadNext ==
  \/ \E p \in Producers : LoadEmit(p)
  \/ \E w \in Workers : WorkerLoop(w)
  \/ \E w \in Workers : LoadPop(w)
  \/ \E w \in Workers : LoadProcess(w)
  \/ ShutdownRequest
  \/ ShutdownSignal
  \/ ShutdownJoin
  \/ ShutdownReset
  \/ ShutdownFinish

\* Fair scheduling: every thread that can take a step eventually takes one
LoadFairness ==
  /\ \A p \in Producers : WF_vars(LoadEmit(p))
  /\ \A w \in Workers : WF_vars(WorkerSteps(w))
  /\ WF_vars(ShutdownSteps)

SpecLoad == LoadInit /\ [][LoadNext]_vars /\ LoadFairness

\* C34: once shutdown() has been called on an initialized logger, under fair
\* scheduling and with every process_event call returning, every worker leaves
\* its pop and exits, the joins complete and shutdown() returns.
C34_ShutdownTerminates == shutdown_requested_ ~> (mpc = "down")

\* ---- The history as the context of the analysis stages, with several workers

\* pattern_engine_->match_patterns(processed_event, event_history_): the worker
\* passes a reference to the history, holding no mutex, and the stages begin
\* to walk through it
ReadBegin(w) ==
  /\ wpc[w] = "analyze" /\ ~crashed
  /\ wpc' = [wpc EXCEPT ![w] = "reading"]
  /\ history_ref' = [history_ref EXCEPT ![w] = event_history_]
  /\ UNCHANGED <<config_, initialized_, shutdown_requested_, g_event_queue, queue_,
                 shutdown_, stats_, mutex_, stats_mutex_, event_callbacks_,
                 anomaly_callbacks_, event_history_, next_event_id, workload, crashed,
                 mpc, ppc, pev, wev, wret, wcb, pushed, pushedAtShutdown,
                 pendingAtShutdown, popped, processed, cbLog, imVars, events_, event_,
                 fileVars, corrVars, detVars, patVars, components_>>

\* The stages are done with the history.  When no worker changed it meanwhile
\* they saw the history as it is; a deque read while another thread pushes to
\* it or pops from it is a data race, after which the stages may have seen the
\* history from before, the history from after, or memory that is no longer
\* the deque's.
ReadEnd(w) ==
  /\ wpc[w] = "reading" /\ ~crashed
  /\ IF history_ref[w] = event_history_
       THEN /\ Analyze(w, event_history_)
            /\ history_ref' = [history_ref EXCEPT ![w] = NoRef]
       ELSE \/ \E context \in {history_ref[w], event_history_} :
                 /\ Analyze(w, context)
                 /\ history_ref' = [history_ref EXCEPT ![w] = NoRef]
            \/ /\ crashed' = TRUE
               /\ UNCHANGED <<config_, initialized_, shutdown_requested_, g_event_queue,
                              queue_, shutdown_, stats_, mutex_, stats_mutex_,
                              event_callbacks_, anomaly_callbacks_, event_history_,
                              next_event_id, workload, mpc, ppc, pev, wpc, wev, wret,
                              wcb, pushed, pushedAtShutdown, pendingAtShutdown, popped,
                              processed, cbLog, imVars, events_, event_, fileVars,
                              corrVars, detVars, patVars, history_ref, components_>>

RaceNext ==
  \/ \E cfg \in Configs : Init_(cfg)
  \/ \E p \in Producers : EmitBegin(p)
  \/ \E p \in Producers : EmitStats(p)
  \/ \E p \in Producers : EmitPush(p)
  \/ \E p \in Producers : EmitDrop(p)
  \/ \E w \in Workers : WorkerLoop(w)
  \/ \E w \in Workers : WorkerPop(w)
  \/ \E w \in Workers : ReadBegin(w)
  \/ \E w \in Workers : ReadEnd(w)
  \/ \E w \in Workers : ProcHistory(w)
  \/ \E w \in Workers : ProcLockEventCb(w)
  \/ ShutdownRequest
  \/ ShutdownSignal
  \/ ShutdownJoin
  \/ ShutdownReset
  \/ ShutdownFinish

SpecRace == CascadeInit /\ [][RaceNext]_vars

C35_Step ==
  \A w \in Workers :
    (wpc[w] = "reading" /\ wpc'[w] = "reading") => event_history_' = event_history_

\* C35: with two or more workers no worker appends to the event history or
\* evicts from it while another worker is reading it as the context of
\* pattern matching or causality learning.
C35_HistoryReads == [][C35_Step]_vars

\* ---- The IncidentManager's counters over repeated resolutions

MaxCountResolves == 2      \* resolutions counted over a run of this slice

CountResolve ==
  /\ im_stats_.resolved < MaxCountResolves
  /\ \E id \in IdsAsked, r \in Resolutions : Resolve(id, r)
  /\ UNCHANGED <<loggerVarsButStats, intVars>>

CountAutoResolve ==
  /\ im_stats_.resolved < MaxCountResolves
  /\ AutoResolve
  /\ UNCHANGED <<loggerVarsButStats, intVars>>

\* One anomalous event is evaluated, again and again
CountEvent == [id |-> 1, type |-> "payment.failed", score |-> 95]

CountEvaluate ==
  /\ ProcIncident(CountEvent, <<>>, <<>>)
  /\ UNCHANGED <<loggerVarsButStats, intVars>>

CountNext ==
  \/ CountEvaluate
  \/ IMCreate
  \/ IMUpdate
  \/ CountResolve
  \/ CountAutoResolve
  \/ IMTick

SpecCount == IMSpecInit /\ [][CountNext]_vars

\* The stored incidents whose status is RESOLVED
StoredResolved == {id \in DOMAIN incidents_ : incidents_[id].status = "RESOLVED"}

\* C36: after any sequence of evaluate_event, create_incident, update_status,
\* resolve_incident and auto_resolve_stale_incidents, currently_open is not
\* below zero (a size_t that wrapped reads as a negative number here), resolved
\* is the number of stored incidents that have been resolved, and
\* currently_open + resolved = total_created.
C36_Counters ==
  /\ im_stats_.currently_open >= 0
  /\ im_stats_.resolved = Cardinality(StoredResolved)
  /\ im_stats_.currently_open + im_stats_.resolved = im_stats_.total_created

\* ---- A suppressed duplicate

\* The step is an evaluate_event call that found a duplicate
Suppressed == im_stats_'.deduplicated = im_stats_.deduplicated + 1

C37_Step ==
  /\ Suppressed =>
       /\ incidents_' = incidents_
       /\ im_stats_'.total_created = im_stats_.total_created
       /\ im_stats_'.currently_open = im_stats_.currently_open
       /\ im_stats_'.resolved = im_stats_.resolved
       /\ next_incident_id_' = next_incident_id_
       /\ intLog' = intLog
  /\ DOMAIN incidents_' = 1..Cardinality(DOMAIN incidents_')

\* C37: an evaluate_event call that suppresses a duplicate adds one to
\* deduplicated and changes nothing else of the manager: the store,
\* total_created, currently_open and the next incident id stay and no
\* integration is called, so the ids of the stored incidents are consecutive
\* from 1.
C37_SuppressedDuplicate == [][C37_Step]_vars

\* ---- init, shutdown, init with another configuration

\* One producer emits two events, each carrying a metric; the application
\* shuts the logger down and initializes it once more.
ReinitWorkload ==
  [emits |-> <<2, 0>>, callbacks |-> 0, anomalies |-> FALSE,
   patterns |-> TRUE, types |-> <<>>,
   builder |-> FALSE, severities |-> <<>>, scores |-> <<>>,
   inits |-> 0, shutdowns |-> 0, reinits |-> 1]

ReinitConfigs ==
  [async_queue_size : {1}, worker_threads : {1}, sampling_rate : {100},
   sample_anomalies_always : {TRUE}, log_file_path : {NoPath},
   enable_anomaly_detection : BOOLEAN, enable_pattern_matching : BOOLEAN,
   enable_correlation : BOOLEAN, enable_auto_incidents : BOOLEAN]

\* The stages of process_event before the history: each runs when its
\* component pointer is not null (if (anomaly_detector_ && ...),
\* if (pattern_engine_), if (correlation_engine_), if (incident_manager_)) and
\* leaves the event in what the component has accumulated
StagesRun(w) ==
  /\ wpc[w] = "analyze" /\ ~crashed
  /\ components_' =
       [k \in ComponentFlags |->
          IF components_[k].present
            THEN [components_[k] EXCEPT !.seen = @ \cup {wev[w].id}]
            ELSE components_[k]]
  /\ wpc' = [wpc EXCEPT ![w] = "history"]
  /\ UNCHANGED <<config_, initialized_, shutdown_requested_, g_event_queue, queue_,
                 shutdown_, stats_, mutex_, stats_mutex_, event_callbacks_,
                 anomaly_callbacks_, event_history_, next_event_id, workload, crashed,
                 mpc, ppc, pev, wev, wret, wcb, pushed, pushedAtShutdown,
                 pendingAtShutdown, popped, processed, cbLog, imVars, events_, event_,
                 fileVars, corrVars, detVars, patVars, history_ref>>

ReinitInit == LoggerInitWith(ReinitWorkload) /\ IMInit

ReinitNext ==
  \/ \E cfg \in ReinitConfigs : Init_(cfg)
  \/ \E cfg \in ReinitConfigs : ReInit(cfg)
  \/ \E p \in Producers : EmitBegin(p)
  \/ \E p \in Producers : EmitStats(p)
  \/ \E p \in Producers : EmitPush(p)
  \/ \E p \in Producers : EmitDrop(p)
  \/ \E w \in Workers : WorkerLoop(w)
  \/ \E w \in Workers : WorkerPop(w)
  \/ \E w \in Workers : StagesRun(w)
  \/ \E w \in Workers : ProcHistory(w)
  \/ \E w \in Workers : ProcLockEventCb(w)
  \/ ShutdownRequest
  \/ ShutdownSignal
  \/ ShutdownJoin
  \/ ShutdownReset
  \/ ShutdownFinish

SpecReinit == ReinitInit /\ [][ReinitNext]_vars

\* The step takes an event through the analysis stages
StagesStep == \E w \in Workers : wpc[w] = "analyze" /\ wpc'[w] = "history"

C38_Step ==
  /\ StagesStep =>
       \A k \in ComponentFlags :
         (components_'[k].seen # components_[k].seen) <=> Flag(config_, k)
  /\ (~initialized_ /\ initialized_') =>
       \A k \in ComponentFlags : Flag(config_', k) => components_'[k] = FreshComponent

\* C38: whatever init, shutdown, init sequence came before, an analysis stage
\* runs on a processed event if and only if its enable flag is set in the
\* configuration of the last init, and a component enabled by an init starts
\* freshly constructed.
C38_ComponentsFollowConfig == [][C38_Step]_vars

\* ---- Callbacks that call Logger::get_stats()

\* One producer emits two events the detector may flag; the application
\* registers callbacks, and a callback may ask the logger for its statistics.
LockWorkload ==
  [emits |-> <<2, 0>>, callbacks |-> MaxCallbacks, anomalies |-> TRUE,
   patterns |-> FALSE, types |-> <<>>,
   builder |-> FALSE, severities |-> <<>>, scores |-> <<>>,
   inits |-> 0, shutdowns |-> 0, reinits |-> 0]

\* Where the worker is while its callback is inside get_stats, by the list the
\* callback belongs to
InGetStats == [anomaly_cb |-> "get_stats_a", event_cb |-> "get_stats_e"]

\* The callback the worker is in calls Logger::instance().get_stats() and
\* arrives at lock_guard lock(stats_mutex_)
CallGetStats(w) ==
  /\ wpc[w] \in DOMAIN InGetStats /\ ~crashed
  /\ wpc' = [wpc EXCEPT ![w] = InGetStats[wpc[w]]]
  /\ UNCHANGED <<config_, initialized_, shutdown_requested_, g_event_queue, queue_,
                 shutdown_, stats_, mutex_, stats_mutex_, event_callbacks_,
                 anomaly_callbacks_, event_history_, next_event_id, workload, crashed,
                 mpc, ppc, pev, wev, wret, wcb, pushed, pushedAtShutdown,
                 pendingAtShutdown, popped, processed, cbLog, imVars, events_, event_,
                 fileVars, corrVars, detVars, patVars, history_ref, components_>>

\* get_stats: stats_mutex_ is locked, stats_ copied, the mutex released, and
\* the callback goes on.  While another thread holds stats_mutex_ the call
\* waits.
get_stats(w) ==
  /\ wpc[w] \in {"get_stats_a", "get_stats_e"} /\ ~crashed
  /\ stats_mutex_ = 0
  /\ wpc' = [wpc EXCEPT ![w] = IF wpc[w] = "get_stats_a" THEN "anomaly_cb" ELSE "event_cb"]
  /\ UNCHANGED <<config_, initialized_, shutdown_requested_, g_event_queue, queue_,
                 shutdown_, stats_, mutex_, stats_mutex_, event_callbacks_,
                 anomaly_callbacks_, event_history_, next_event_id, workload, crashed,
                 mpc, ppc, pev, wev, wret, wcb, pushed, pushedAtShutdown,
                 pendingAtShutdown, popped, processed, cbLog, imVars, events_, event_,
                 fileVars, corrVars, detVars, patVars, history_ref, components_>>

\* get_stats on the thread that holds stats_mutex_ (inside an anomaly
\* callback): locking a std::mutex its own thread holds is undefined.  The
\* thread waits for itself forever (no step), or lock() reports the deadlock
\* with a system_error nothing catches and the process terminates.
get_stats_relock(w) ==
  /\ wpc[w] \in {"get_stats_a", "get_stats_e"} /\ ~crashed
  /\ stats_mutex_ = w
  /\ crashed' = TRUE
  /\ UNCHANGED <<config_, initialized_, shutdown_requested_, g_event_queue, queue_,
                 shutdown_, stats_, mutex_, stats_mutex_, event_callbacks_,
                 anomaly_callbacks_, event_history_, next_event_id, workload, mpc, ppc,
                 pev, wpc, wev, wret, wcb, pushed, pushedAtShutdown, pendingAtShutdown,
                 popped, processed, cbLog, imVars, events_, event_, fileVars, corrVars,
                 detVars, patVars, history_ref, components_>>

LockInit == LoggerInitWith(LockWorkload) /\ IMInit

LockNext ==
  \/ LoggerNext
  \/ \E w \in Workers : CallGetStats(w)
  \/ \E w \in Workers : get_stats(w)
  \/ \E w \in Workers : get_stats_relock(w)

SpecLock == LockInit /\ [][LockNext]_vars

\* The mutex a worker is waiting for at its position, and the thread holding it
WaitsForStats(w) == wpc[w] \in {"lock_stats", "get_stats_a", "get_stats_e"}
WaitsForMain(w) == wpc[w] \in {"lock_cb", "history", "lock_ecb"}
Blocker(w) ==
  IF WaitsForStats(w) THEN stats_mutex_
  ELSE IF WaitsForMain(w) THEN mutex_
  ELSE 0

\* A set of workers each waiting for a mutex that a worker of the set holds
Deadlocked ==
  \E D \in SUBSET Workers :
    /\ D # {}
    /\ \A w \in D : Blocker(w) \in D

\* C39: with callbacks that return, also callbacks that call
\* Logger::get_stats(), no reachable state has threads waiting for each
\* other's mutexes forever.
C39_DeadlockFreedom == ~crashed => ~Deadlocked

====
